---------------------------- MODULE Spec2Model ----------------------------
(***************************************************************************)
(* A model of the flowsheet canvas of project_sim_link                     *)
(* (src/UI_Interface/flow_canvas.py, class Canvas).                        *)
(*                                                                         *)
(* The state is the Canvas object's fields plus the geometry of the        *)
(* container widgets it owns.  Every event handler of the class is one     *)
(* action.  Python floats are modelled by exact rationals <<n, d>>         *)
(* (d > 0, lowest terms); int() truncates toward zero and QPoint / float   *)
(* rounds with qRound, as Qt 5 does.  A Python exception that escapes a    *)
(* handler either ends the program (PyQt5 >= 5.5 aborts) or is printed and *)
(* the event loop goes on (older PyQt5, or an installed excepthook): both  *)
(* outcomes are in the model.                                              *)
(***************************************************************************)
EXTENDS Integers, Sequences, FiniteSets, TLC

(***************************************************************************)
(* Bounds of the model.                                                    *)
(***************************************************************************)
MaxUnits == 2
MaxGraphUnits == 3
MaxConns == 4
MaxGraphConns == 3
MaxZoom == 1
MaxOverlapConns == 2
MaxScaleTerm == 20

(***************************************************************************)
(* Constants of the program.                                               *)
(***************************************************************************)
RouteOffset == 24
RouteGap == 60
HitThreshold == 8
CornerSize == 10
LayoutMargin == 2
LayoutSpacing == 2

(***************************************************************************)
(* Exact rationals for Python floats.                                      *)
(***************************************************************************)
Abs(a) == IF a < 0 THEN -a ELSE a

Min(a, b) == IF a <= b THEN a ELSE b

Max(a, b) == IF a >= b THEN a ELSE b

RECURSIVE GCD(_, _)
GCD(a, b) == IF b = 0 THEN a ELSE GCD(b, a % b)

Rat(n, d) ==
    LET s == IF d < 0 THEN -1 ELSE 1
        g == GCD(Abs(n), Abs(d))
    IN  <<(s * n) \div g, (s * d) \div g>>

RInt(i) == <<i, 1>>

\* The operations reduce before they multiply, to keep the terms small.
RAdd(a, b) ==
    LET g == GCD(a[2], b[2])
    IN  Rat(a[1] * (b[2] \div g) + b[1] * (a[2] \div g),
            (a[2] \div g) * b[2])

RSub(a, b) == RAdd(a, <<-b[1], b[2]>>)

RMul(a, b) ==
    LET x == Rat(a[1], b[2])
        y == Rat(b[1], a[2])
    IN  Rat(x[1] * y[1], x[2] * y[2])

RDiv(a, b) == RMul(a, Rat(b[2], b[1]))

RLeq(a, b) == a[1] * b[2] <= b[1] * a[2]

\* Python int(x): truncation toward zero.
PyInt(a) == IF a[1] >= 0 THEN a[1] \div a[2] ELSE -((-a[1]) \div a[2])

\* Qt 5 qRound(x) = floor(x + 0.5), used by QPoint / qreal.
QRound(a) == (2 * a[1] + a[2]) \div (2 * a[2])

\* The zoom ratio 1.1 of zoomIn and zoomOut.
ZoomRatio == <<11, 10>>

RECURSIVE RPow(_, _)
RPow(a, k) == IF k = 0 THEN RInt(1) ELSE RMul(a, RPow(a, k - 1))

(***************************************************************************)
(* QRect [x, y, w, h]: right() = x + w - 1 and bottom() = y + h - 1, and   *)
(* contains() holds on the border.                                         *)
(***************************************************************************)
RectRight(r) == r.x + r.w - 1

RectBottom(r) == r.y + r.h - 1

RectContains(r, p) ==
    /\ r.w > 0 /\ r.h > 0
    /\ r.x <= p[1] /\ p[1] <= RectRight(r)
    /\ r.y <= p[2] /\ p[2] <= RectBottom(r)

\* QSize.scaled(target, Qt.KeepAspectRatio) followed by QPixmap.scaled's
\* floor of 1 pixel; an empty target gives the null pixmap (0 x 0).
ScaledPixmapSize(pix, tw, th) ==
    IF tw <= 0 \/ th <= 0 THEN <<0, 0>>
    ELSE LET rw == (th * pix[1]) \div pix[2]
             sz == IF rw <= tw THEN <<rw, th>>
                   ELSE <<tw, (tw * pix[2]) \div pix[1]>>
         IN  <<Max(sz[1], 1), Max(sz[2], 1)>>

\* sizeHint of the container: a QVBoxLayout with margins 2 and spacing 2
\* holding the fixed-size image label above the text label.
ContainerSize(img, txt) ==
    <<Max(img[1], txt[1]) + 2 * LayoutMargin,
      img[2] + LayoutSpacing + txt[2] + 2 * LayoutMargin>>


(***************************************************************************)
(* Unit labels are strings of characters; str.lower() maps each character. *)
(***************************************************************************)
LowerChar(c) ==
    CASE c = "E" -> "e"
      [] c = "I" -> "i"
      [] c = "F" -> "f"
      [] c = "G" -> "g"
      [] c = "L" -> "l"
      [] OTHER -> c

Lower(s) == [i \in 1..Len(s) |-> LowerChar(s[i])]

\* Python's  sub in s  for strings.
IsSubstring(sub, s) ==
    \E i \in 0..(Len(s) - Len(sub)) :
        \A j \in 1..Len(sub) : s[i + j] = sub[j]

\* "if" in start_props["text_label"].text().lower()
IsIfBlock(text) == IsSubstring(<<"i", "f">>, Lower(text))

(***************************************************************************)
(* The inputs the environment can send.                                    *)
(***************************************************************************)
\* A drop: mimeData().text() (the palette item's file base name), the size
\* of the dragged pixmap (the palette scales icons into 100 x 100), the
\* size hint of the 11px text label under the platform's font, event.pos().
Drops ==
    << [text |-> <<"E", "l", "I", "f">>, pixmap |-> <<100, 100>>,
        text_size |-> <<30, 13>>, pos |-> <<100, 200>>],
       [text |-> <<"G", "a", "i", "n">>, pixmap |-> <<100, 100>>,
        text_size |-> <<30, 13>>, pos |-> <<300, 200>>],
       [text |-> <<"S", "u", "m">>, pixmap |-> <<100, 100>>,
        text_size |-> <<30, 13>>, pos |-> <<300, 400>>] >>

\* event.pos() of a pointer press: the two drop places' containers (the
\* second near its left edge, where connections end) and empty canvas.
PressPoints == { <<100, 200>>, <<260, 200>>, <<200, 400>> }

\* The press points of the connection-graph scenario: the third drop
\* place's container as well.
GraphPressPoints == PressPoints \cup { <<300, 400>> }

\* What the user does with a context menu: "none" dismisses it.
ConnectionMenuChoices == {"none", "delete"}

UnitMenuChoices == {"none", "delete", "connect"}

\* event.pos() of a pointer move.
MovePoints == { <<260, 200>> }

Buttons == { "Left", "Right" }

VARIABLES
    images,                  \* self.images: the containers, in insertion order
    props,                   \* self.images[container]: its property dict
    geom,                    \* container.geometry() of every live container
    stack,                   \* stacking order of the containers, bottom first
    active_image,            \* self.active_image (0 is None)
    scaleFactor,             \* self.scaleFactor
    grid_offset,             \* self.grid_offset
    adjust_mode,             \* self.adjust_mode
    last_pan_point,          \* self.last_pan_point (<<>> is None)
    connecting,              \* self.connecting
    connection_start,        \* self.connection_start (0 is None)
    connection_preview_pos,  \* self.connection_preview_pos (<<>> is None)
    connections,             \* self.connections
    selected_connection,     \* self.selected_connection (<<>> is None)
    created,                 \* number of containers created so far
    crashed,                 \* an exception has ended the program
    menu                     \* what the last event showed: "conn", "unit",
                             \* "none", or "raise" (an exception escaped)

vars ==
    <<images, props, geom, stack, active_image, scaleFactor, grid_offset,
      adjust_mode, last_pan_point, connecting, connection_start,
      connection_preview_pos, connections, selected_connection, created,
      crashed, menu>>

None == 0

NoPoint == <<>>

ImageSet == { images[i] : i \in 1..Len(images) }

\* x in seq, by position of the first occurrence (0 when absent).
IndexOf(seq, x) ==
    IF \E i \in 1..Len(seq) : seq[i] = x
    THEN CHOOSE i \in 1..Len(seq) :
            seq[i] = x /\ \A j \in 1..(i - 1) : seq[j] # x
    ELSE 0

RemoveAt(seq, i) == SubSeq(seq, 1, i - 1) \o SubSeq(seq, i + 1, Len(seq))

Without(seq, x) == SelectSeq(seq, LAMBDA y : y # x)


(***************************************************************************)
(* Coordinate transform.                                                   *)
(***************************************************************************)
\* int(position.x() * scaleFactor) + grid_offset.x(), and the same for y.
ToScreen(position, scale, offset) ==
    <<PyInt(RMul(position[1], scale)) + offset[1],
      PyInt(RMul(position[2], scale)) + offset[2]>>

\* Python floats are doubles, and the rationals of this model stand for the
\* doubles nearest to them.  A product whose exact value is not an integer
\* is far from one, and int() of the double is int() of the exact value.  A
\* product whose exact value is an integer k is k when both factors are
\* doubles exactly (their denominators are powers of 2), and when an integer
\* is scaled by one zoom step (the doubles 1.1 and 1/1.1 give k for every
\* integer up to 3000); otherwise the double may fall short of k, and int()
\* gives k or the integer next to it towards 0.
RECURSIVE IsPow2(_)
IsPow2(n) == IF n = 1 THEN TRUE ELSE IF n % 2 # 0 THEN FALSE ELSE IsPow2(n \div 2)

Dyadic(a) == IsPow2(a[2])

OneZoomStep(scale) == scale \in {RInt(1), ZoomRatio, RDiv(RInt(1), ZoomRatio)}

\* int() of a double whose exact value is e; `exact` says that the double
\* is known to be e.
FloatIntOf(e, exact) ==
    IF e[2] # 1 \/ e[1] = 0 \/ exact
    THEN {PyInt(e)}
    ELSE {e[1], IF e[1] > 0 THEN e[1] - 1 ELSE e[1] + 1}

\* int(a * scale)
FloatInts(a, scale) ==
    FloatIntOf(RMul(a, scale),
               \/ Dyadic(a) /\ Dyadic(scale)
               \/ a[2] = 1 /\ OneZoomStep(scale))

\* The screen positions int(position * scaleFactor) + grid_offset can take.
ToScreens(position, scale, offset) ==
    { <<x + offset[1], y + offset[2]>> :
         x \in FloatInts(position[1], scale),
         y \in FloatInts(position[2], scale) }

\* (widget_pos - grid_offset) / scaleFactor as a QPointF.
ToLogical(point, scale, offset) ==
    <<RDiv(RInt(point[1] - offset[1]), scale),
      RDiv(RInt(point[2] - offset[2]), scale)>>

\* (event.pos() - grid_offset) / scaleFactor as a QPoint: rounded.
ToLogicalQPoint(point, scale, offset) ==
    <<QRound(RDiv(RInt(point[1] - offset[1]), scale)),
      QRound(RDiv(RInt(point[2] - offset[2]), scale))>>

(***************************************************************************)
(* Routing of a connection between two container rectangles.               *)
(***************************************************************************)
\* (rect.right(), rect.top() + rect.height() // 2)
StartPos(r) == <<RectRight(r), r.y + (r.h \div 2)>>

\* (rect.left(), rect.top() + rect.height() // 2)
EndPos(r) == <<r.x, r.y + (r.h \div 2)>>

\* RoutePoints with a plausible slip: the direct elbow is taken only when
\* the two ends are less than one offset apart vertically.
RoutePoints_narrow_elbow(sr, er) ==
    LET S == StartPos(sr)
        E == EndPos(er)
    IN  IF S[1] < E[1] - RouteOffset
        THEN LET p1 == <<S[1] + RouteOffset, S[2]>>
                 p2 == <<E[1] - RouteOffset, E[2]>>
             IN  IF Abs(S[2] - E[2]) < RouteOffset
                 THEN <<S, p1, <<p1[1], E[2]>>, p2, E>>
                 ELSE LET mid_y == (S[2] + E[2]) \div 2
                      IN  <<S, p1, <<p1[1], mid_y>>, <<p2[1], mid_y>>, p2, E>>
        ELSE LET top == Min(sr.y, er.y)
                 p1 == <<S[1] + RouteOffset, S[2]>>
                 p2 == <<p1[1], top - RouteGap>>
                 p3 == <<er.x - RouteGap, p2[2]>>
                 p4 == <<p3[1], E[2]>>
                 p5 == <<E[1] - RouteOffset, E[2]>>
             IN  <<S, p1, p2, p3, p4, p5, E>>

\* RoutePoints with a plausible slip: the loopback rises above the start
\* rectangle only.
RoutePoints_above_start(sr, er) ==
    LET S == StartPos(sr)
        E == EndPos(er)
    IN  IF S[1] < E[1] - RouteOffset
        THEN LET p1 == <<S[1] + RouteOffset, S[2]>>
                 p2 == <<E[1] - RouteOffset, E[2]>>
             IN  IF Abs(S[2] - E[2]) < 2 * RouteOffset
                 THEN <<S, p1, <<p1[1], E[2]>>, p2, E>>
                 ELSE LET mid_y == (S[2] + E[2]) \div 2
                      IN  <<S, p1, <<p1[1], mid_y>>, <<p2[1], mid_y>>, p2, E>>
        ELSE LET top == sr.y
                 p1 == <<S[1] + RouteOffset, S[2]>>
                 p2 == <<p1[1], top - RouteGap>>
                 p3 == <<er.x - RouteGap, p2[2]>>
                 p4 == <<p3[1], E[2]>>
                 p5 == <<E[1] - RouteOffset, E[2]>>
             IN  <<S, p1, p2, p3, p4, p5, E>>

\* connection_path and connection_path_points, and the committed
\* connections' branch of paintEvent: the vertices of the routed path.
RoutePoints(sr, er) ==
    LET S == StartPos(sr)
        E == EndPos(er)
    IN  IF S[1] < E[1] - RouteOffset
        THEN LET p1 == <<S[1] + RouteOffset, S[2]>>
                 p2 == <<E[1] - RouteOffset, E[2]>>
             IN  IF Abs(S[2] - E[2]) < 2 * RouteOffset
                 THEN <<S, p1, <<p1[1], E[2]>>, p2, E>>
                 ELSE LET mid_y == (S[2] + E[2]) \div 2
                      IN  <<S, p1, <<p1[1], mid_y>>, <<p2[1], mid_y>>, p2, E>>
        ELSE LET top == Min(sr.y, er.y)
                 p1 == <<S[1] + RouteOffset, S[2]>>
                 p2 == <<p1[1], top - RouteGap>>
                 p3 == <<er.x - RouteGap, p2[2]>>
                 p4 == <<p3[1], E[2]>>
                 p5 == <<E[1] - RouteOffset, E[2]>>
             IN  <<S, p1, p2, p3, p4, p5, E>>

\* The container of a connection end is alive: geometry() of a destroyed
\* widget raises RuntimeError.
ConnAlive(c) == c.start \in DOMAIN geom /\ c.end \in DOMAIN geom

\* connection_path_points(conn), and the vertices of connection_path(conn).
connection_path_points(c) == RoutePoints(geom[c.start], geom[c.end])

(***************************************************************************)
(* Hit-testing.                                                            *)
(***************************************************************************)
\* qt_painterpath_isect_line: the contribution of edge a-b to the winding
\* number of pt; horizontal edges are ignored, the upper end is exclusive.
IsectLine(a, b, pt) ==
    IF a[2] = b[2] THEN 0
    ELSE LET dir == IF b[2] < a[2] THEN -1 ELSE 1
             lo == IF b[2] < a[2] THEN b ELSE a
             hi == IF b[2] < a[2] THEN a ELSE b
         IN  IF /\ pt[2] >= lo[2]
                /\ pt[2] < hi[2]
                /\ lo[1] * (hi[2] - lo[2]) + (hi[1] - lo[1]) * (pt[2] - lo[2])
                       <= pt[1] * (hi[2] - lo[2])
             THEN dir
             ELSE 0

RECURSIVE WindingSum(_, _, _)
WindingSum(pts, i, pt) ==
    IF i >= Len(pts) THEN 0
    ELSE IsectLine(pts[i], pts[i + 1], pt) + WindingSum(pts, i + 1, pt)

\* QPainterPath.contains(pt) of the open polyline pts, OddEvenFill: the
\* point must lie in the control-point rectangle (a null rectangle holds
\* nothing) and the winding number of the implicitly closed path is odd.
PathContains(pts, pt) ==
    LET xs == { pts[i][1] : i \in 1..Len(pts) }
        ys == { pts[i][2] : i \in 1..Len(pts) }
        closing == IF pts[Len(pts)] # pts[1]
                   THEN IsectLine(pts[Len(pts)], pts[1], pt)
                   ELSE 0
    IN  /\ Cardinality(xs) > 1 /\ Cardinality(ys) > 1
        /\ \E l, r \in xs : l <= pt[1] /\ pt[1] <= r
        /\ \E t, b \in ys : t <= pt[2] /\ pt[2] <= b
        /\ (WindingSum(pts, 1, pt) + closing) % 2 # 0

\* point_near_line(pt, p1, p2, threshold)
point_near_line(pt, p1, p2, threshold) ==
    LET dx == p2[1] - p1[1]
        dy == p2[2] - p1[2]
    IN  IF dx = 0 /\ dy = 0
        THEN (pt[1] - p1[1]) * (pt[1] - p1[1])
               + (pt[2] - p1[2]) * (pt[2] - p1[2]) <= threshold * threshold
        ELSE IF dy = 0
        THEN \* t * dx is the offset of pt.x clamped into the segment
             LET cx == Max(Min(p1[1], p2[1]), Min(pt[1], Max(p1[1], p2[1])))
             IN  (pt[1] - cx) * (pt[1] - cx)
                   + (pt[2] - p1[2]) * (pt[2] - p1[2]) <= threshold * threshold
        ELSE IF dx = 0
        THEN LET cy == Max(Min(p1[2], p2[2]), Min(pt[2], Max(p1[2], p2[2])))
             IN  (pt[1] - p1[1]) * (pt[1] - p1[1])
                   + (pt[2] - cy) * (pt[2] - cy) <= threshold * threshold
        ELSE LET raw == Rat((pt[1] - p1[1]) * dx + (pt[2] - p1[2]) * dy,
                            dx * dx + dy * dy)
                 t == IF RLeq(raw, RInt(0)) THEN RInt(0)
                      ELSE IF RLeq(RInt(1), raw) THEN RInt(1) ELSE raw
                 ex == RSub(RInt(pt[1] - p1[1]), RMul(t, RInt(dx)))
                 ey == RSub(RInt(pt[2] - p1[2]), RMul(t, RInt(dy)))
             IN  RLeq(RAdd(RMul(ex, ex), RMul(ey, ey)),
                      RInt(threshold * threshold))

\* One iteration of connection_at's loop: path containment, then the
\* distance to each segment.
ConnHit(c, pos) ==
    LET pts == connection_path_points(c)
    IN  \/ PathContains(pts, pos)
        \/ \E i \in 1..(Len(pts) - 1) :
              point_near_line(pos, pts[i], pts[i + 1], HitThreshold)

\* The iteration at which connection_at(pos) stops: the first connection
\* that is hit or whose geometry cannot be read (0: the loop runs out).
ConnAtStop(pos) ==
    LET stops == { i \in 1..Len(connections) :
                      ~ConnAlive(connections[i]) \/ ConnHit(connections[i], pos) }
    IN  IF stops = {} THEN 0
        ELSE CHOOSE i \in stops : \A j \in stops : i <= j

\* connection_at(pos) raises RuntimeError.
ConnAtRaises(pos) ==
    LET stop == ConnAtStop(pos)
    IN  stop # 0 /\ ~ConnAlive(connections[stop])

\* connection_at(pos): index of the connection returned (0 is None).
connection_at(pos) ==
    LET stop == ConnAtStop(pos)
    IN  IF stop # 0 /\ ConnAlive(connections[stop]) THEN stop ELSE 0

\* FirstContainerAt with a plausible slip: of the containers that hold pos
\* the one highest in the stacking order is taken.
FirstContainerAt_topmost(pos, skip) ==
    LET hits == { i \in 1..Len(stack) :
                     stack[i] # skip /\ RectContains(geom[stack[i]], pos) }
    IN  IF hits = {} THEN None
        ELSE stack[CHOOSE i \in hits : \A j \in hits : i >= j]

\* The first container of self.images, in insertion order, whose geometry
\* contains pos and which is not `skip` (0 when there is none).
FirstContainerAt(pos, skip) ==
    LET hits == { i \in 1..Len(images) :
                     images[i] # skip /\ RectContains(geom[images[i]], pos) }
    IN  IF hits = {} THEN None
        ELSE images[CHOOSE i \in hits : \A j \in hits : i <= j]

\* get_resize_corner with a plausible slip: the right-hand corners are
\* tested before the left-hand ones.
get_resize_corner_right_first(pos, r) ==
    LET Sq(x, y) == [x |-> x, y |-> y, w |-> CornerSize, h |-> CornerSize]
    IN  IF RectContains(Sq(r.x + r.w - CornerSize, r.y), pos) THEN "top_right"
        ELSE IF RectContains(Sq(r.x, r.y), pos)
        THEN "top_left"
        ELSE IF RectContains(Sq(r.x + r.w - CornerSize,
                                r.y + r.h - CornerSize), pos)
        THEN "bottom_right"
        ELSE IF RectContains(Sq(r.x, r.y + r.h - CornerSize), pos)
        THEN "bottom_left"
        ELSE "none"

\* get_resize_corner(pos, container)
get_resize_corner(pos, r) ==
    LET Sq(x, y) == [x |-> x, y |-> y, w |-> CornerSize, h |-> CornerSize]
    IN  IF RectContains(Sq(r.x, r.y), pos) THEN "top_left"
        ELSE IF RectContains(Sq(r.x + r.w - CornerSize, r.y), pos)
        THEN "top_right"
        ELSE IF RectContains(Sq(r.x, r.y + r.h - CornerSize), pos)
        THEN "bottom_left"
        ELSE IF RectContains(Sq(r.x + r.w - CornerSize,
                                r.y + r.h - CornerSize), pos)
        THEN "bottom_right"
        ELSE "none"

(***************************************************************************)
(* Extent of the model: where a dragged container may end up, how far the  *)
(* grid may be panned, and the zoom levels reached.                        *)
(***************************************************************************)
DragArea == [x |-> 0, y |-> 0, w |-> 300, h |-> 300]

PanArea == [x |-> 0, y |-> 0, w |-> 161, h |-> 1]

\* The view at 100% and unpanned.
DefaultView == scaleFactor = RInt(1) /\ grid_offset = <<0, 0>>

\* The layout is as dropped, in the default view.
Pristine ==
    /\ DefaultView
    /\ \A u \in DOMAIN props : props[u].position = props[u].original_position

\* Nothing is connected or being connected; in addition nothing is selected.
LayoutFree == connections = <<>> /\ ~connecting

ViewFree == LayoutFree /\ active_image = None

ScaleInRange(scale) ==
    /\ RLeq(scale, RPow(ZoomRatio, MaxZoom))
    /\ RLeq(RDiv(RInt(1), RPow(ZoomRatio, MaxZoom)), scale)

(***************************************************************************)
(* Initial state: Canvas.__init__                                          *)
(***************************************************************************)
Init ==
    /\ images = <<>>
    /\ props = <<>>
    /\ geom = <<>>
    /\ stack = <<>>
    /\ active_image = None
    /\ scaleFactor = RInt(1)
    /\ grid_offset = <<0, 0>>
    /\ adjust_mode = FALSE
    /\ last_pan_point = NoPoint
    /\ connecting = FALSE
    /\ connection_start = None
    /\ connection_preview_pos = NoPoint
    /\ connections = <<>>
    /\ selected_connection = <<>>
    /\ created = 0
    /\ crashed = FALSE
    /\ menu = "none"

(***************************************************************************)
(* dropEvent                                                               *)
(***************************************************************************)
\* The image label's size after the drop: the pixmap scaled by 0.80.
DropImageSize(pix) ==
    ScaledPixmapSize(pix, PyInt(RMul(RInt(pix[1]), <<4, 5>>)),
                          PyInt(RMul(RInt(pix[2]), <<4, 5>>)))

NewProps(text, pix, txt, logical) ==
    [pixmap |-> pix,
     size |-> DropImageSize(pix),
     position |-> logical,
     resizing_offset |-> <<RInt(0), RInt(0)>>,
     resizing |-> FALSE,
     resize_corner |-> "none",
     original_size |-> DropImageSize(pix),
     original_position |-> logical,
     image_label |-> DropImageSize(pix),
     text_label |-> [text |-> text, size |-> txt],
     current_image_offset |-> <<>>]

dropEvent(text, pix, txt, pos) ==
    LET id == created + 1
        csize == ContainerSize(DropImageSize(pix), txt)
        position == <<pos[1] - (csize[1] \div 2), pos[2] - (csize[2] \div 2)>>
        logical == ToLogical(position, scaleFactor, grid_offset)
    IN  /\ ~crashed
        /\ created' = id
        /\ images' = Append(images, id)
        /\ props' = props @@ (id :> NewProps(text, pix, txt, logical))
        /\ geom' = geom @@ (id :> [x |-> position[1], y |-> position[2],
                                   w |-> csize[1], h |-> csize[2]])
        /\ stack' = Append(stack, id)
        /\ menu' = "none"
        /\ UNCHANGED <<active_image, scaleFactor, grid_offset, adjust_mode,
                       last_pan_point, connecting, connection_start,
                       connection_preview_pos, connections,
                       selected_connection, crashed>>

(***************************************************************************)
(* updateImageScaling: every container of self.images is resized around    *)
(* its rescaled image label and moved to its scaled, panned position.      *)
(***************************************************************************)
ScaledImageSize(pr, scale) ==
    ScaledPixmapSize(pr.pixmap,
                     PyInt(RMul(RInt(pr.size[1]), scale)),
                     PyInt(RMul(RInt(pr.size[2]), scale)))

ScaledGeom(pr, scale, offset) ==
    LET at == ToScreen(pr.position, scale, offset)
        csize == ContainerSize(ScaledImageSize(pr, scale), pr.text_label.size)
    IN  [x |-> at[1], y |-> at[2], w |-> csize[1], h |-> csize[2]]

\* The sizes and places one container can be given.
ScaledStates(pr, scale, offset) ==
    { [at |-> at,
       img |-> ScaledPixmapSize(pr.pixmap, w, h)] :
         at \in ToScreens(pr.position, scale, offset),
         w \in FloatInts(RInt(pr.size[1]), scale),
         h \in FloatInts(RInt(pr.size[2]), scale) }

updateImageScaling(scale, offset) ==
    \E f \in { g \in [DOMAIN props ->
                         UNION { ScaledStates(props[u], scale, offset) :
                                    u \in DOMAIN props }] :
                  \A u \in DOMAIN props :
                     g[u] \in ScaledStates(props[u], scale, offset) } :
       /\ geom' = [u \in DOMAIN geom |->
                     LET csize == ContainerSize(f[u].img,
                                                props[u].text_label.size)
                     IN  [x |-> f[u].at[1], y |-> f[u].at[2],
                          w |-> csize[1], h |-> csize[2]]]
       /\ props' = [u \in DOMAIN props |->
                       [props[u] EXCEPT !.image_label = f[u].img]]

(***************************************************************************)
(* mousePressEvent                                                         *)
(***************************************************************************)
\* NewConnection with a plausible slip: the port counts every connection,
\* not only those that leave the source.
NewConnection_counts_all(start, end) ==
    LET port == Len(connections)
    IN  IF IsIfBlock(props[start].text_label.text)
        THEN [start |-> start, end |-> end, type |-> "action",
              label |-> IF port = 0 THEN "if(u1 > 0)"
                        ELSE IF port = 1 THEN "elseif(u2 > 0)"
                        ELSE "else",
              port |-> port, total_ports |-> 3]
        ELSE [start |-> start, end |-> end, type |-> "data",
              label |-> "", port |-> 0, total_ports |-> 1]

\* The connection the connect gesture appends: lines 318-344.
NewConnection(start, end) ==
    LET port == Cardinality({ i \in 1..Len(connections) :
                                 connections[i].start = start })
    IN  IF IsIfBlock(props[start].text_label.text)
        THEN [start |-> start, end |-> end, type |-> "action",
              label |-> IF port = 0 THEN "if(u1 > 0)"
                        ELSE IF port = 1 THEN "elseif(u2 > 0)"
                        ELSE "else",
              port |-> port, total_ports |-> 3]
        ELSE [start |-> start, end |-> end, type |-> "data",
              label |-> "", port |-> 0, total_ports |-> 1]

\* ConnectTarget with a plausible slip: the source itself is not skipped.
ConnectTarget_with_source(pos) == FirstContainerAt(pos, None)

\* The container a press commits the connect gesture to: the loop of
\* lines 312-313 (0: the loop runs out and the gesture is cancelled).
ConnectTarget(pos) == FirstContainerAt(pos, connection_start)

\* PressOnConnection with a plausible slip: Delete removes the connection
\* and leaves it selected.
PressOnConnection_keeps_selection(clicked_conn, choice) ==
    LET hit == connections[clicked_conn]
    IN  /\ clicked_conn # 0
        /\ connections' = IF choice = "delete"
                          THEN RemoveAt(connections, IndexOf(connections, hit))
                          ELSE connections
        /\ selected_connection' = <<hit>>
        /\ menu' = "conn"
        /\ UNCHANGED <<images, props, geom, stack, active_image, scaleFactor,
                       grid_offset, adjust_mode, last_pan_point, connecting,
                       connection_start, connection_preview_pos, created,
                       crashed>>

\* A right press for which connection_at finds a connection: the
\* connection context menu (showConnectionContextMenu) runs inside the press.
PressOnConnection(clicked_conn, choice) ==
    LET hit == connections[clicked_conn]
    IN  /\ clicked_conn # 0
        /\ IF choice = "delete"
           THEN /\ connections' = RemoveAt(connections, IndexOf(connections, hit))
                /\ selected_connection' = <<>>
           ELSE /\ connections' = connections
                /\ selected_connection' = <<hit>>
        /\ menu' = "conn"
        /\ UNCHANGED <<images, props, geom, stack, active_image, scaleFactor,
                       grid_offset, adjust_mode, last_pan_point, connecting,
                       connection_start, connection_preview_pos, created,
                       crashed>>

\* A right press for which connection_at reads the geometry of a destroyed
\* container: RuntimeError escapes the handler before it changes anything.
PressRaises ==
    /\ crashed' \in BOOLEAN
    /\ menu' = "raise"
    /\ UNCHANGED <<images, props, geom, stack, active_image, scaleFactor,
                   grid_offset, adjust_mode, last_pan_point, connecting,
                   connection_start, connection_preview_pos, connections,
                   selected_connection, created>>

\* PressConnecting with a plausible slip: the cancel path forgets to reset
\* connection_start.
PressConnecting_keeps_start(pos, button) ==
    /\ connecting
    /\ IF ConnectTarget(pos) # None
       THEN /\ Len(connections) < MaxConns
            /\ connections' =
                  Append(connections,
                         NewConnection(connection_start, ConnectTarget(pos)))
            /\ connection_start' = None
       ELSE /\ connections' = connections
            /\ connection_start' = connection_start
    /\ connecting' = FALSE
    /\ connection_preview_pos' = NoPoint
    /\ menu' = "none"
    /\ UNCHANGED <<images, props, geom, stack, active_image, scaleFactor,
                   grid_offset, adjust_mode, last_pan_point,
                   selected_connection, created, crashed>>

\* A press during a connect gesture: lines 311-358.
PressConnecting(pos, button) ==
    /\ connecting
    /\ IF ConnectTarget(pos) # None
       THEN /\ Len(connections) < MaxConns
            /\ connections' =
                  Append(connections,
                         NewConnection(connection_start, ConnectTarget(pos)))
       ELSE connections' = connections
    /\ connecting' = FALSE
    /\ connection_start' = None
    /\ connection_preview_pos' = NoPoint
    /\ menu' = "none"
    /\ UNCHANGED <<images, props, geom, stack, active_image, scaleFactor,
                   grid_offset, adjust_mode, last_pan_point,
                   selected_connection, created, crashed>>

\* A left press in adjust mode starts a pan: lines 360-363.
PressPan(pos) ==
    /\ ~connecting
    /\ adjust_mode
    /\ last_pan_point' = pos
    /\ menu' = "none"
    /\ UNCHANGED <<images, props, geom, stack, active_image, scaleFactor,
                   grid_offset, adjust_mode, connecting, connection_start,
                   connection_preview_pos, connections, selected_connection,
                   created, crashed>>

\* delete_image with a plausible slip: every entry of self.images goes.
delete_image_clears_registry(u) ==
    IF u \in ImageSet
    THEN /\ images' = <<>>
         /\ props' = <<>>
         /\ geom' = <<>>
         /\ stack' = <<>>
         /\ active_image' = None
    ELSE UNCHANGED <<images, props, geom, stack, active_image>>

\* delete_image(u)
delete_image(u) ==
    IF u \in ImageSet
    THEN /\ images' = Without(images, u)
         /\ props' = [v \in DOMAIN props \ {u} |-> props[v]]
         /\ geom' = [v \in DOMAIN geom \ {u} |-> geom[v]]
         /\ stack' = Without(stack, u)
         /\ active_image' = None
    ELSE UNCHANGED <<images, props, geom, stack, active_image>>

\* connect_line(u)
connect_line(u) ==
    IF u \in ImageSet
    THEN /\ connecting' = TRUE
         /\ connection_start' = u
         /\ connection_preview_pos' = NoPoint
    ELSE UNCHANGED <<connecting, connection_start, connection_preview_pos>>

\* A right press on a container: showContextMenu runs inside the press.
PressUnitMenu(pos, choice) ==
    LET u == FirstContainerAt(pos, None)
    IN  /\ ~connecting
        /\ u # None
        /\ IF choice = "delete"
           THEN delete_image(u)
           ELSE UNCHANGED <<images, props, geom, stack, active_image>>
        /\ IF choice = "connect"
           THEN connect_line(u)
           ELSE UNCHANGED <<connecting, connection_start,
                            connection_preview_pos>>
        /\ menu' = "unit"
        /\ UNCHANGED <<scaleFactor, grid_offset, adjust_mode, last_pan_point,
                       connections, selected_connection, created, crashed>>

\* raise_image(u): u goes to the top, then every other container of
\* self.images, in insertion order, goes to the bottom.
RECURSIVE LowerAll(_, _)
LowerAll(order, others) ==
    IF others = <<>> THEN order
    ELSE LowerAll(<<Head(others)>> \o Without(order, Head(others)),
                  Tail(others))

raise_image(u) == LowerAll(Append(Without(stack, u), u), Without(images, u))

\* A left press on a container selects it for a drag or, on a corner
\* square, for a resize: lines 374-390.
PressSelect(pos) ==
    LET u == FirstContainerAt(pos, None)
        corner == get_resize_corner(pos, geom[u])
        mouse == ToLogicalQPoint(pos, scaleFactor, grid_offset)
        at == props[u].position
        offset == <<RSub(RInt(mouse[1]), at[1]), RSub(RInt(mouse[2]), at[2])>>
        picked == [props[u] EXCEPT !.current_image_offset = offset]
    IN  /\ ~connecting
        /\ u # None
        /\ active_image' = u
        /\ stack' = raise_image(u)
        /\ props' = [props EXCEPT ![u] =
              IF corner # "none"
              THEN [picked EXCEPT
                      !.resizing = TRUE,
                      !.resize_corner = corner,
                      !.resizing_offset =
                          <<RDiv(RSub(RInt(pos[1]), at[1]), scaleFactor),
                            RDiv(RSub(RInt(pos[2]), at[2]), scaleFactor)>>]
              ELSE picked]
        /\ menu' = "none"
        /\ UNCHANGED <<images, geom, scaleFactor, grid_offset, adjust_mode,
                       last_pan_point, connecting, connection_start,
                       connection_preview_pos, connections,
                       selected_connection, created, crashed>>

\* A press that falls through every branch: no container under it.
PressNothing(pos, button) ==
    /\ ~connecting
    /\ FirstContainerAt(pos, None) = None
    /\ menu' = "none"
    /\ UNCHANGED <<images, props, geom, stack, active_image, scaleFactor,
                   grid_offset, adjust_mode, last_pan_point, connecting,
                   connection_start, connection_preview_pos, connections,
                   selected_connection, created, crashed>>

\* mousePressEvent with a plausible slip: the connect gesture is looked at
\* before the right-click check for connections.
mousePressEvent_connecting_first(pos, button) ==
    LET stop == ConnAtStop(pos)
        raises == stop # 0 /\ ~ConnAlive(connections[stop])
        clicked_conn == IF raises THEN 0 ELSE stop
    IN  /\ ~crashed
        /\ IF connecting
           THEN PressConnecting(pos, button)
           ELSE IF button = "Right" /\ raises
           THEN PressRaises
           ELSE IF button = "Right" /\ clicked_conn # 0
           THEN \E choice \in ConnectionMenuChoices :
                   PressOnConnection(clicked_conn, choice)
           ELSE IF adjust_mode /\ button = "Left"
           THEN PressPan(pos)
           ELSE IF FirstContainerAt(pos, None) = None
           THEN PressNothing(pos, button)
           ELSE IF button = "Right"
           THEN \E choice \in UnitMenuChoices : PressUnitMenu(pos, choice)
           ELSE PressSelect(pos)

mousePressEvent(pos, button) ==
    LET stop == ConnAtStop(pos)
        raises == stop # 0 /\ ~ConnAlive(connections[stop])
        clicked_conn == IF raises THEN 0 ELSE stop
    IN  /\ ~crashed
        /\ IF button = "Right" /\ raises
           THEN PressRaises
           ELSE IF button = "Right" /\ clicked_conn # 0
           THEN \E choice \in ConnectionMenuChoices :
                   PressOnConnection(clicked_conn, choice)
           ELSE IF connecting
           THEN PressConnecting(pos, button)
           ELSE IF adjust_mode /\ button = "Left"
           THEN PressPan(pos)
           ELSE IF FirstContainerAt(pos, None) = None
           THEN PressNothing(pos, button)
           ELSE IF button = "Right"
           THEN \E choice \in UnitMenuChoices : PressUnitMenu(pos, choice)
           ELSE PressSelect(pos)

(***************************************************************************)
(* mouseMoveEvent                                                          *)
(***************************************************************************)
\* During a connect gesture the preview follows the pointer: lines 406-409.
MovePreview(pos, left) ==
    /\ connecting
    /\ connection_start # None
    /\ connection_preview_pos' = pos
    /\ UNCHANGED <<images, props, geom, stack, active_image, scaleFactor,
                   grid_offset, adjust_mode, last_pan_point, connecting,
                   connection_start, connections, selected_connection,
                   created, crashed>>

\* The pan that measures every move from the point of the press.
MovePan_from_press_point(pos, left) ==
    LET offset == <<grid_offset[1] + pos[1] - last_pan_point[1],
                    grid_offset[2] + pos[2] - last_pan_point[2]>>
    IN  /\ adjust_mode
        /\ last_pan_point # NoPoint
        /\ grid_offset' = offset
        /\ updateImageScaling(scaleFactor, offset)
        /\ UNCHANGED <<images, stack, active_image, scaleFactor, adjust_mode,
                       last_pan_point, connecting, connection_start,
                       connection_preview_pos, connections,
                       selected_connection, created, crashed>>

\* Panning: lines 412-418.
MovePan(pos, left) ==
    LET offset == <<grid_offset[1] + pos[1] - last_pan_point[1],
                    grid_offset[2] + pos[2] - last_pan_point[2]>>
    IN  /\ adjust_mode
        /\ last_pan_point # NoPoint
        /\ last_pan_point' = pos
        /\ grid_offset' = offset
        /\ updateImageScaling(scaleFactor, offset)
        /\ UNCHANGED <<images, stack, active_image, scaleFactor, adjust_mode,
                       connecting, connection_start, connection_preview_pos,
                       connections, selected_connection, created, crashed>>

\* resize_image(pos, properties): pos - properties["resizing_offset"] is a
\* QPointF, which QRect.setTopLeft / setTopRight / setBottomLeft /
\* setBottomRight do not take: TypeError escapes the handler before the
\* geometry is written.
MoveResize(pos, left) ==
    /\ active_image # None
    /\ props[active_image].resizing
    /\ crashed' \in BOOLEAN
    /\ UNCHANGED <<images, props, geom, stack, active_image, scaleFactor,
                   grid_offset, adjust_mode, last_pan_point, connecting,
                   connection_start, connection_preview_pos, connections,
                   selected_connection, created>>

\* The drag without the grab offset: the unit's corner jumps to the pointer.
MoveDrag_without_grab_offset(pos, left) ==
    LET pr == props[active_image]
        mouse == ToLogicalQPoint(pos, scaleFactor, grid_offset)
        logical == <<RInt(mouse[1]), RInt(mouse[2])>>
    IN  /\ active_image # None
        /\ ~pr.resizing
        /\ left
        /\ props' = [props EXCEPT ![active_image].position = logical]
        /\ \E at \in ToScreens(logical, scaleFactor, grid_offset) :
              geom' = [geom EXCEPT ![active_image].x = at[1],
                                   ![active_image].y = at[2]]
        /\ UNCHANGED <<images, stack, active_image, scaleFactor, grid_offset,
                       adjust_mode, last_pan_point, connecting,
                       connection_start, connection_preview_pos, connections,
                       selected_connection, created, crashed>>

\* Dragging the active container: lines 425-435.
MoveDrag(pos, left) ==
    LET pr == props[active_image]
        mouse == ToLogicalQPoint(pos, scaleFactor, grid_offset)
        logical == <<RSub(RInt(mouse[1]), pr.current_image_offset[1]),
                     RSub(RInt(mouse[2]), pr.current_image_offset[2])>>
    IN  /\ active_image # None
        /\ ~pr.resizing
        /\ left
        /\ props' = [props EXCEPT ![active_image].position = logical]
        /\ \E at \in ToScreens(logical, scaleFactor, grid_offset) :
              geom' = [geom EXCEPT ![active_image].x = at[1],
                                   ![active_image].y = at[2]]
        /\ UNCHANGED <<images, stack, active_image, scaleFactor, grid_offset,
                       adjust_mode, last_pan_point, connecting,
                       connection_start, connection_preview_pos, connections,
                       selected_connection, created, crashed>>

\* A move that no branch takes up.
MoveNothing(pos, left) ==
    UNCHANGED <<images, props, geom, stack, active_image, scaleFactor,
                grid_offset, adjust_mode, last_pan_point, connecting,
                connection_start, connection_preview_pos, connections,
                selected_connection, created, crashed>>

mouseMoveEvent(pos, left) ==
    /\ ~crashed
    /\ menu' = "none"
    /\ IF connecting /\ connection_start # None
       THEN MovePreview(pos, left)
       ELSE IF adjust_mode /\ last_pan_point # NoPoint
       THEN MovePan(pos, left)
       ELSE IF active_image # None /\ props[active_image].resizing
       THEN MoveResize(pos, left)
       ELSE IF active_image # None /\ left
       THEN MoveDrag(pos, left)
       ELSE MoveNothing(pos, left)

(***************************************************************************)
(* mouseReleaseEvent                                                       *)
(***************************************************************************)
mouseReleaseEvent(button) ==
    /\ ~crashed
    /\ menu' = "none"
    /\ IF adjust_mode /\ button = "Left"
       THEN /\ last_pan_point' = NoPoint
            /\ UNCHANGED <<props, active_image>>
       ELSE IF active_image # None
       THEN LET g == geom[active_image]
                logical == ToLogical(<<g.x, g.y>>, scaleFactor, grid_offset)
                pr == props[active_image]
            IN  /\ props' = [props EXCEPT ![active_image] =
                      IF pr.resizing
                      THEN [pr EXCEPT !.resizing = FALSE,
                                      !.size = pr.original_size,
                                      !.position = logical]
                      ELSE [pr EXCEPT !.position = logical]]
                /\ active_image' = None
                /\ UNCHANGED last_pan_point
       ELSE UNCHANGED <<props, active_image, last_pan_point>>
    /\ UNCHANGED <<images, geom, stack, scaleFactor, grid_offset, adjust_mode,
                   connecting, connection_start, connection_preview_pos,
                   connections, selected_connection, created, crashed>>

(***************************************************************************)
(* Zoom: keyPressEvent and the + and - buttons.                            *)
(***************************************************************************)
zoomIn ==
    /\ scaleFactor' = RMul(scaleFactor, ZoomRatio)
    /\ updateImageScaling(RMul(scaleFactor, ZoomRatio), grid_offset)

zoomOut ==
    /\ scaleFactor' = RDiv(scaleFactor, ZoomRatio)
    /\ updateImageScaling(RDiv(scaleFactor, ZoomRatio), grid_offset)

\* keyPressEvent that ends the gesture on the active unit.
keyPressEvent_ends_gesture(key) ==
    /\ ~crashed
    /\ menu' = "none"
    /\ IF key = "+" THEN zoomIn ELSE zoomOut
    /\ active_image' = None
    /\ UNCHANGED <<images, stack, grid_offset, adjust_mode,
                   last_pan_point, connecting, connection_start,
                   connection_preview_pos, connections, selected_connection,
                   created, crashed>>

keyPressEvent(key) ==
    /\ ~crashed
    /\ menu' = "none"
    /\ IF key = "+" THEN zoomIn ELSE zoomOut
    /\ UNCHANGED <<images, stack, active_image, grid_offset, adjust_mode,
                   last_pan_point, connecting, connection_start,
                   connection_preview_pos, connections, selected_connection,
                   created, crashed>>

\* A click on the + or - button; toggleAdjustMode disables both buttons
\* while adjust mode is on.
zoomButtonClicked(key) ==
    /\ ~crashed
    /\ ~adjust_mode
    /\ menu' = "none"
    /\ IF key = "+" THEN zoomIn ELSE zoomOut
    /\ UNCHANGED <<images, stack, active_image, grid_offset, adjust_mode,
                   last_pan_point, connecting, connection_start,
                   connection_preview_pos, connections, selected_connection,
                   created, crashed>>

(***************************************************************************)
(* resetView: fit every unit into the canvas of size cw x ch.               *)
(***************************************************************************)
FitMargin == 40

RMinOf(S) == CHOOSE a \in S : \A b \in S : RLeq(a, b)

RMaxOf(S) == CHOOSE a \in S : \A b \in S : RLeq(b, a)

\* The bounding rectangle of all units in logical coordinates with the
\* margin added: lines 617-636.
BoundingMinX == RSub(RMinOf({ props[u].position[1] : u \in ImageSet }),
                     RInt(FitMargin))

BoundingMinY == RSub(RMinOf({ props[u].position[2] : u \in ImageSet }),
                     RInt(FitMargin))

BoundingMaxX ==
    RAdd(RMaxOf({ RAdd(props[u].position[1], RInt(props[u].size[1])) :
                     u \in ImageSet }), RInt(FitMargin))

BoundingMaxY ==
    RAdd(RMaxOf({ RAdd(props[u].position[2], RInt(props[u].size[2])) :
                     u \in ImageSet }), RInt(FitMargin))

\* resetView without the cap at 100%.
FitScale_uncapped(cw, ch) ==
    LET bw == RSub(BoundingMaxX, BoundingMinX)
        bh == RSub(BoundingMaxY, BoundingMinY)
    IN  IF bw = RInt(0) \/ bh = RInt(0) THEN RInt(1)
        ELSE RMinOf({RDiv(RInt(cw), bw), RDiv(RInt(ch), bh)})

\* min(scale_x, scale_y, 1.0), or 1.0 for a bounding box without width or
\* height: lines 643-648.
FitScale(cw, ch) ==
    LET bw == RSub(BoundingMaxX, BoundingMinX)
        bh == RSub(BoundingMaxY, BoundingMinY)
    IN  IF bw = RInt(0) \/ bh = RInt(0) THEN RInt(1)
        ELSE RMinOf({RDiv(RInt(cw), bw), RDiv(RInt(ch), bh), RInt(1)})

\* int((canvas - bounding * scale) / 2 - min * scale): lines 653-654.
FitOffsets(canvas, lo, hi, scale) ==
    LET bounding == RSub(hi, lo)
    IN  FloatIntOf(RSub(RDiv(RSub(RInt(canvas), RMul(bounding, scale)),
                             RInt(2)),
                        RMul(lo, scale)),
                   Dyadic(lo) /\ Dyadic(hi) /\ Dyadic(scale))

\* resetView that returns to the default view when there is no unit.
resetView_resets_empty(cw, ch) ==
    /\ ~crashed
    /\ menu' = "none"
    /\ IF images = <<>>
       THEN /\ scaleFactor' = RInt(1)
            /\ grid_offset' = <<0, 0>>
            /\ UNCHANGED <<props, geom>>
       ELSE LET scale == FitScale(cw, ch)
            IN  \E ox \in FitOffsets(cw, BoundingMinX, BoundingMaxX, scale),
                   oy \in FitOffsets(ch, BoundingMinY, BoundingMaxY, scale) :
                   /\ scaleFactor' = scale
                   /\ grid_offset' = <<ox, oy>>
                   /\ updateImageScaling(scale, <<ox, oy>>)
    /\ UNCHANGED <<images, stack, active_image, adjust_mode, last_pan_point,
                   connecting, connection_start, connection_preview_pos,
                   connections, selected_connection, created, crashed>>

resetView(cw, ch) ==
    /\ ~crashed
    /\ menu' = "none"
    /\ IF images = <<>>
       THEN UNCHANGED <<scaleFactor, grid_offset, props, geom>>
       ELSE LET scale == FitScale(cw, ch)
            IN  \E ox \in FitOffsets(cw, BoundingMinX, BoundingMaxX, scale),
                   oy \in FitOffsets(ch, BoundingMinY, BoundingMaxY, scale) :
                   /\ scaleFactor' = scale
                   /\ grid_offset' = <<ox, oy>>
                   /\ updateImageScaling(scale, <<ox, oy>>)
    /\ UNCHANGED <<images, stack, active_image, adjust_mode, last_pan_point,
                   connecting, connection_start, connection_preview_pos,
                   connections, selected_connection, created, crashed>>

\* A click on the Reset button, which toggleAdjustMode disables while
\* adjust mode is on.
resetButtonClicked(cw, ch) ==
    /\ ~adjust_mode
    /\ resetView(cw, ch)

(***************************************************************************)
(* toggleAdjustMode                                                        *)
(***************************************************************************)
toggleAdjustMode ==
    /\ ~crashed
    /\ adjust_mode' = ~adjust_mode
    /\ menu' = "none"
    /\ UNCHANGED <<images, props, geom, stack, active_image, scaleFactor,
                   grid_offset, last_pan_point, connecting, connection_start,
                   connection_preview_pos, connections, selected_connection,
                   created, crashed>>

(***************************************************************************)
(* paintEvent reads the geometry of both ends of every connection; with a  *)
(* destroyed container among them RuntimeError escapes the handler.        *)
(***************************************************************************)
PaintRaises == \E i \in 1..Len(connections) : ~ConnAlive(connections[i])

paintEvent ==
    /\ ~crashed
    /\ crashed' \in (IF PaintRaises THEN BOOLEAN ELSE {FALSE})
    /\ UNCHANGED <<images, props, geom, stack, active_image, scaleFactor,
                   grid_offset, adjust_mode, last_pan_point, connecting,
                   connection_start, connection_preview_pos, connections,
                   selected_connection, created, menu>>

(***************************************************************************)
(* The canvas: any event, in any order.  The handlers above take any event *)
(* in any state; the scenarios below bound what they explore.              *)
(***************************************************************************)
\* mousePressEvent(pos, button) selects the container under pos.
SelectsAt(pos, button) ==
    /\ button # "Right"
    /\ ~connecting
    /\ ~(adjust_mode /\ button = "Left")
    /\ FirstContainerAt(pos, None) # None

\* mouseMoveEvent(pos, left) pans the grid, and where to.
Pans == ~(connecting /\ connection_start # None)
        /\ adjust_mode /\ last_pan_point # NoPoint

PanTarget(pos) ==
    <<grid_offset[1] + pos[1] - last_pan_point[1],
      grid_offset[2] + pos[2] - last_pan_point[2]>>

\* mouseMoveEvent(pos, left) drags the active container, and where to.
Drags(left) ==
    /\ ~(connecting /\ connection_start # None)
    /\ ~Pans
    /\ active_image # None
    /\ ~props[active_image].resizing
    /\ left

DragTarget(pos) ==
    LET pr == props[active_image]
        mouse == ToLogicalQPoint(pos, scaleFactor, grid_offset)
    IN  ToScreen(<<RSub(RInt(mouse[1]), pr.current_image_offset[1]),
                   RSub(RInt(mouse[2]), pr.current_image_offset[2])>>,
                 scaleFactor, grid_offset)

\* The scale after a zoom step.
ZoomedScale(key) ==
    IF key = "+" THEN RMul(scaleFactor, ZoomRatio)
    ELSE RDiv(scaleFactor, ZoomRatio)

\* The main scenario and the connection-graph scenario explore drops,
\* selecting presses and drags in the default view only, drags only while
\* nothing is connected and inside DragArea, pans inside PanArea, changes of
\* the view only while nothing is connected or selected and over MaxZoom
\* zoom steps, connect gestures started in the default view, and at most
\* MaxGraphConns connections.
PressInExtent(pos, button) == SelectsAt(pos, button) => DefaultView

ConnectInExtent ==
    /\ (connecting' /\ ~connecting) => DefaultView
    /\ Len(connections') <= MaxGraphConns

MoveInExtent(pos, left) ==
    /\ Pans => (ViewFree /\ RectContains(PanArea, PanTarget(pos)))
    /\ Drags(left) => /\ LayoutFree
                      /\ DefaultView
                      /\ RectContains(DragArea, DragTarget(pos))

ZoomInExtent(key) == ViewFree /\ ScaleInRange(ZoomedScale(key))

\* Palette items are dropped in the order of Drops, at most `max` of them.
NextDrops(max) ==
    { Drops[n] : n \in ({created + 1} \cap 1..max) \cap DOMAIN Drops }

Next ==
    \/ \E d \in NextDrops(MaxUnits) :
          /\ DefaultView
          /\ dropEvent(d.text, d.pixmap, d.text_size, d.pos)
    \/ \E pos \in PressPoints, button \in Buttons :
          /\ PressInExtent(pos, button)
          /\ mousePressEvent(pos, button)
          /\ ConnectInExtent
    \/ \E pos \in MovePoints, left \in BOOLEAN :
          /\ MoveInExtent(pos, left)
          /\ mouseMoveEvent(pos, left)
    \/ \E button \in Buttons : mouseReleaseEvent(button)
    \/ \E key \in {"+", "-"} :
          /\ ZoomInExtent(key)
          /\ keyPressEvent(key)
    \/ \E key \in {"+", "-"} :
          /\ ZoomInExtent(key)
          /\ zoomButtonClicked(key)
    \/ toggleAdjustMode
    \/ paintEvent

Spec == Init /\ [][Next]_vars

(***************************************************************************)
(* The connection-graph scenario: three units, unit and connection context *)
(* menus, connect gestures, keyboard zoom and repaints.                    *)
(***************************************************************************)
NextGraph ==
    \/ \E d \in NextDrops(MaxGraphUnits) :
          /\ DefaultView
          /\ dropEvent(d.text, d.pixmap, d.text_size, d.pos)
    \/ \E pos \in GraphPressPoints, button \in Buttons :
          /\ button = "Right" \/ connecting
          /\ mousePressEvent(pos, button)
          /\ ConnectInExtent
    \/ \E pos \in MovePoints, left \in BOOLEAN :
          connecting /\ mouseMoveEvent(pos, left)
    \/ \E key \in {"+", "-"} :
          /\ ZoomInExtent(key)
          /\ keyPressEvent(key)
    \/ paintEvent

SpecGraph == Init /\ [][NextGraph]_vars

(***************************************************************************)
(* The routing scenario: two units dropped anywhere on a set of places,    *)
(* one connected to the other, repaints (paintEvent routes and draws every *)
(* connection) and right presses (connection_at routes and hit-tests).     *)
(***************************************************************************)
\* event.pos() of the drops: places side by side, one below the other,
\* overlapping ones, and places less than 48 apart.
RouteDropPoints ==
    { <<100, 300>>, <<300, 300>>, <<300, 330>>, <<300, 380>>,
      <<150, 150>>, <<130, 320>>, <<220, 300>>, <<220, 380>> }

\* event.pos() of the right presses on the canvas.
HitPoints ==
    { <<150, 300>>, <<200, 250>>, <<200, 182>>, <<200, 181>>, <<224, 351>>,
      <<20, 20>>, <<165, 200>>, <<80, 300>> }

\* The middle of a container.
Center(r) == <<r.x + (r.w \div 2), r.y + (r.h \div 2)>>

NextRoute ==
    \/ \E d \in NextDrops(MaxUnits), at \in RouteDropPoints :
          dropEvent(d.text, d.pixmap, d.text_size, at)
    \/ \E u \in ImageSet, button \in Buttons :
          /\ connections = <<>>
          /\ button = "Right" \/ connecting
          /\ mousePressEvent(Center(geom[u]), button)
    \/ \E pos \in HitPoints :
          /\ connections # <<>>
          /\ mousePressEvent(pos, "Right")
    \/ paintEvent

SpecRoute == Init /\ [][NextRoute]_vars

(***************************************************************************)
(* The overlap scenario: three units dropped so that each overlaps the     *)
(* others, presses in and outside the overlap, releases and repaints.      *)
(***************************************************************************)
\* The containers are 84 x 99 at (58, 251), (88, 271) and (118, 291).
OverlapDrops ==
    << [text |-> <<"E", "l", "I", "f">>, pixmap |-> <<100, 100>>,
        text_size |-> <<30, 13>>, pos |-> <<100, 300>>],
       [text |-> <<"G", "a", "i", "n">>, pixmap |-> <<100, 100>>,
        text_size |-> <<30, 13>>, pos |-> <<130, 320>>],
       [text |-> <<"S", "u", "m">>, pixmap |-> <<100, 100>>,
        text_size |-> <<30, 13>>, pos |-> <<160, 340>>] >>

\* event.pos() of the presses: a point of all three containers, a point of
\* the third only, and a point above the containers.
OverlapPressPoints == { <<130, 320>>, <<190, 380>>, <<100, 230>> }

NextOverlapDrops ==
    { OverlapDrops[n] :
         n \in ({created + 1} \cap 1..MaxGraphUnits) \cap DOMAIN OverlapDrops }

NextOverlap ==
    \/ \E d \in NextOverlapDrops :
          dropEvent(d.text, d.pixmap, d.text_size, d.pos)
    \/ \E pos \in OverlapPressPoints, button \in Buttons :
          /\ connecting => Len(connections) < MaxOverlapConns
          /\ (button = "Left" /\ ~connecting) => connections = <<>>
          /\ mousePressEvent(pos, button)
    \/ \E button \in Buttons : mouseReleaseEvent(button)
    \/ paintEvent

SpecOverlap == Init /\ [][NextOverlap]_vars

(***************************************************************************)
(* The resize scenario: a unit of the usual size and a narrow one (a       *)
(* 15 x 100 icon over a one-letter label: a container 16 wide), left       *)
(* presses on and off their corner squares, moves while a resize is on,    *)
(* releases and repaints.                                                  *)
(***************************************************************************)
ResizeDrops ==
    << [text |-> <<"G", "a", "i", "n">>, pixmap |-> <<100, 100>>,
        text_size |-> <<30, 13>>, pos |-> <<100, 200>>],
       [text |-> <<"T">>, pixmap |-> <<15, 100>>,
        text_size |-> <<8, 13>>, pos |-> <<300, 200>>] >>

NextResizeDrops ==
    { ResizeDrops[n] :
         n \in ({created + 1} \cap 1..MaxUnits) \cap DOMAIN ResizeDrops }

\* event.pos() of the presses on a container: 3 px inside each of its
\* corners, the middle of its top edge's strip, and its middle.
ResizePressPoints(r) ==
    { <<r.x + 3, r.y + 3>>, <<RectRight(r) - 3, r.y + 3>>,
      <<r.x + 3, RectBottom(r) - 3>>, <<RectRight(r) - 3, RectBottom(r) - 3>>,
      <<r.x + (r.w \div 2), r.y + 3>>,
      <<r.x + (r.w \div 2), r.y + (r.h \div 2)>> }

\* event.pos() of the moves: beyond the lower right corner of the first
\* container and beyond the upper left corner of both.
ResizeMovePoints == { <<160, 270>>, <<40, 130>> }

NextResize ==
    \/ \E d \in NextResizeDrops :
          dropEvent(d.text, d.pixmap, d.text_size, d.pos)
    \/ \E u \in ImageSet : \E pos \in ResizePressPoints(geom[u]) :
          mousePressEvent(pos, "Left")
    \/ \E pos \in ResizeMovePoints, left \in BOOLEAN :
          /\ active_image # None
          /\ props[active_image].resizing
          /\ mouseMoveEvent(pos, left)
    \/ \E button \in Buttons : mouseReleaseEvent(button)
    \/ paintEvent

SpecResize == Init /\ [][NextResize]_vars

(***************************************************************************)
(* The view scenario: two units far apart, every event in any state of the *)
(* view: drops, presses on the units and beside them, moves, releases,     *)
(* keyboard zoom, the Reset and Adjust buttons and repaints.               *)
(***************************************************************************)
ViewDrops ==
    << [text |-> <<"G", "a", "i", "n">>, pixmap |-> <<100, 100>>,
        text_size |-> <<30, 13>>, pos |-> <<100, 200>>],
       [text |-> <<"S", "u", "m">>, pixmap |-> <<100, 100>>,
        text_size |-> <<30, 13>>, pos |-> <<660, 200>>] >>

NextViewDrops ==
    { ViewDrops[n] :
         n \in ({created + 1} \cap 1..MaxUnits) \cap DOMAIN ViewDrops }

\* event.pos() of the presses: the middle of the first unit, 3 px inside
\* its upper left corner, or a place on the canvas beside the units.
ViewCorner(u) == <<geom[u].x + 3, geom[u].y + 3>>

ViewPressPoints ==
    { Center(geom[u]) : u \in ImageSet \cap {1} }
        \cup { ViewCorner(u) : u \in ImageSet \cap {1} } \cup { <<20, 20>> }

\* event.pos() of the moves.
ViewMovePoints == { <<150, 260>> }

\* Explored: a drop beside units that are where they were dropped; a press
\* on such a unit, on the corner of a single unit as dropped; a context menu
\* on the layout as dropped; a pan of the
\* default view that starts beside the units; a drag of a unit from where
\* it was dropped to a place inside DragArea; a zoom step of an unpanned
\* view between 100% and 110%.
AsDropped(u) == props[u].position = props[u].original_position

ViewDropInExtent == \A u \in ImageSet : AsDropped(u)

ViewPressInExtent(pos, button) ==
    /\ button = "Right" => (Pristine /\ ~adjust_mode)
    /\ (adjust_mode /\ button = "Left") => pos = <<20, 20>>
    /\ SelectsAt(pos, button) => AsDropped(FirstContainerAt(pos, None))
    /\ pos \in { ViewCorner(u) : u \in ImageSet } =>
          (Pristine /\ Len(images) = 1)

ViewMoveInExtent(pos, left) ==
    /\ Pans => DefaultView
    /\ Drags(left) =>
          /\ AsDropped(active_image)
          /\ RectContains(DragArea, DragTarget(pos))

ViewZoomInExtent(key) ==
    /\ grid_offset = <<0, 0>>
    /\ ZoomedScale(key) \in {RInt(1), ZoomRatio}

\* Explored: under a zoomed or panned view, the release of a unit that is
\* where it was dropped.
ViewReleaseInExtent ==
    (active_image # None /\ ~DefaultView) => AsDropped(active_image)

NextView ==
    \/ \E d \in NextViewDrops :
          /\ ViewDropInExtent
          /\ dropEvent(d.text, d.pixmap, d.text_size, d.pos)
    \/ \E pos \in ViewPressPoints, button \in Buttons :
          /\ ViewPressInExtent(pos, button)
          /\ mousePressEvent(pos, button)
    \/ \E pos \in ViewMovePoints, left \in BOOLEAN :
          /\ ViewMoveInExtent(pos, left)
          /\ mouseMoveEvent(pos, left)
    \/ \E button \in Buttons :
          /\ ViewReleaseInExtent
          /\ mouseReleaseEvent(button)
    \/ \E key \in {"+", "-"} :
          /\ ViewZoomInExtent(key)
          /\ keyPressEvent(key)
    \/ toggleAdjustMode
    \/ paintEvent

SpecView == Init /\ [][NextView]_vars

(***************************************************************************)
(* The fit scenario: the two units of the view scenario, zoom steps and    *)
(* the Reset button under the sizes the canvas can have.                   *)
(***************************************************************************)
\* self.width() and self.height() when Reset is clicked: a canvas that
\* holds both units at 100%, one half as wide, and one without width.
Viewports == { <<720, 640>>, <<360, 640>>, <<0, 640>> }

\* Explored: scales with numerator and denominator up to MaxScaleTerm, and
\* a fit of units at integer logical positions.
ScaleInView(scale) == scale[1] <= MaxScaleTerm /\ scale[2] <= MaxScaleTerm

ResetInExtent ==
    \A u \in ImageSet :
       props[u].position[1][2] = 1 /\ props[u].position[2][2] = 1

\* The drops of the fit scenario: those of the view scenario or, as the
\* first unit, a picture of one pixel, which the drop scales to 0 x 0.
PointDrop ==
    [text |-> <<"D", "o", "t">>, pixmap |-> <<1, 1>>,
     text_size |-> <<30, 13>>, pos |-> <<100, 200>>]

NextFitDrops == NextViewDrops \cup { d \in {PointDrop} : created = 0 }

\* event.pos() of the presses: the middle of a container.
FitPressPoints == { Center(geom[u]) : u \in ImageSet }

\* dropEvent divides by scaleFactor: at scale 0 it raises
\* ZeroDivisionError, which is not explored.  Presses are explored on the
\* layout as dropped, to connect two units: the context menu, and the left
\* press that ends the connection.
NextFit ==
    \/ \E d \in NextFitDrops :
          /\ scaleFactor # RInt(0)
          /\ dropEvent(d.text, d.pixmap, d.text_size, d.pos)
    \/ \E pos \in FitPressPoints, button \in Buttons :
          /\ Pristine /\ ~adjust_mode /\ connections = <<>>
          /\ button = "Left" => connecting
          /\ mousePressEvent(pos, button)
          /\ images' = images
    \/ \E key \in {"+", "-"} :
          /\ ScaleInView(ZoomedScale(key))
          /\ keyPressEvent(key)
    \/ \E size \in Viewports :
          /\ ResetInExtent
          /\ resetButtonClicked(size[1], size[2])
    \/ toggleAdjustMode
    \/ paintEvent

SpecFit == Init /\ [][NextFit]_vars

(***************************************************************************)
(* The earlier canvas, class Canvas of src/canvas.py (the editor of         *)
(* src/process_flow_editor.py): every image is a QLabel placed on the       *)
(* canvas itself, and positions and offsets are QPoint throughout.  Its     *)
(* get_resize_corner, raise_image and hit loop read as flow_canvas.py's do. *)
(* A label's entry of props holds position, size, resizing,                 *)
(* resizing_offset, resize_corner, pixmap and current_image_offset; the    *)
(* field label_pixmap is the size of the pixmap the label shows.            *)
(***************************************************************************)
\* Width of the border set_image_border_color gives a label.
LegacyBorder == 2

\* sizeHint of a label showing a pixmap inside its border; a label that was
\* never resized takes this size when it is shown.
LegacyLabelSize(pix) == <<pix[1] + 2 * LegacyBorder, pix[2] + 2 * LegacyBorder>>

legacy_dropEvent(pix, pos) ==
    LET id == created + 1
        position == <<pos[1] - (pix[1] \div 2), pos[2] - (pix[2] \div 2)>>
        lsize == LegacyLabelSize(pix)
    IN  /\ created' = id
        /\ images' = Append(images, id)
        /\ props' = props @@ (id :> [position |-> position,
                                     size |-> pix,
                                     resizing |-> FALSE,
                                     resizing_offset |-> <<0, 0>>,
                                     resize_corner |-> "none",
                                     pixmap |-> pix,
                                     current_image_offset |-> <<0, 0>>,
                                     label_pixmap |-> pix])
        /\ geom' = geom @@ (id :> [x |-> position[1], y |-> position[2],
                                   w |-> lsize[1], h |-> lsize[2]])
        /\ stack' = Append(stack, id)
        /\ UNCHANGED <<active_image, scaleFactor, grid_offset, adjust_mode,
                       last_pan_point, connecting, connection_start,
                       connection_preview_pos, connections,
                       selected_connection, crashed, menu>>

\* A right press on a label shows its delete button and returns; any other
\* press selects the first label of self.images that holds the point, and
\* starts a resize when the point is in a corner square.
legacy_mousePressEvent(pos, button) ==
    LET u == FirstContainerAt(pos, None)
        corner == get_resize_corner(pos, geom[u])
        offset == <<pos[1] - props[u].position[1],
                    pos[2] - props[u].position[2]>>
        picked == [props[u] EXCEPT !.current_image_offset = offset]
    IN  /\ IF u = None \/ button = "Right"
           THEN UNCHANGED <<props, stack, active_image>>
           ELSE /\ active_image' = u
                /\ stack' = raise_image(u)
                /\ props' = [props EXCEPT ![u] =
                      IF corner # "none"
                      THEN [picked EXCEPT !.resizing = TRUE,
                                          !.resize_corner = corner,
                                          !.resizing_offset = offset]
                      ELSE picked]
        /\ UNCHANGED <<images, geom, scaleFactor, grid_offset, adjust_mode,
                       last_pan_point, connecting, connection_start,
                       connection_preview_pos, connections,
                       selected_connection, created, crashed, menu>>

\* resize_image(pos, properties): the corner is set on a copy of the
\* geometry; only the bottom_right branch writes the copy back and rescales
\* the pixmap into it.  setBottomRight keeps the top left corner, so the
\* width is right - x + 1; the widget takes no size below 0 x 0.
legacy_resize_image(pos) ==
    LET u == active_image
        r == geom[u]
        corner == <<pos[1] - props[u].resizing_offset[1],
                    pos[2] - props[u].resizing_offset[2]>>
        w == corner[1] - r.x + 1
        h == corner[2] - r.y + 1
    IN  IF props[u].resize_corner = "bottom_right"
        THEN /\ geom' = [geom EXCEPT ![u].w = Max(w, 0), ![u].h = Max(h, 0)]
             /\ props' = [props EXCEPT ![u].label_pixmap =
                             ScaledPixmapSize(props[u].pixmap, w, h)]
        ELSE UNCHANGED <<geom, props>>

legacy_mouseMoveEvent(pos, left) ==
    /\ IF active_image # None /\ props[active_image].resizing
       THEN /\ legacy_resize_image(pos)
            /\ UNCHANGED stack
       ELSE IF active_image # None /\ left
       THEN LET off == props[active_image].current_image_offset
            IN  /\ geom' = [geom EXCEPT ![active_image].x = pos[1] - off[1],
                                        ![active_image].y = pos[2] - off[2]]
                /\ stack' = raise_image(active_image)
                /\ UNCHANGED props
       ELSE UNCHANGED <<geom, props, stack>>
    /\ UNCHANGED <<images, active_image, scaleFactor, grid_offset, adjust_mode,
                   last_pan_point, connecting, connection_start,
                   connection_preview_pos, connections, selected_connection,
                   created, crashed, menu>>

\* legacy_mouseReleaseEvent that leaves properties["size"] as it was.
legacy_mouseReleaseEvent_keeps_size ==
    /\ IF active_image # None
       THEN LET u == active_image
                at == <<geom[u].x, geom[u].y>>
            IN  /\ props' = [props EXCEPT ![u].resizing = FALSE,
                                          ![u].position = at]
                /\ active_image' = None
       ELSE UNCHANGED <<props, active_image>>
    /\ UNCHANGED <<images, geom, stack, scaleFactor, grid_offset, adjust_mode,
                   last_pan_point, connecting, connection_start,
                   connection_preview_pos, connections, selected_connection,
                   created, crashed, menu>>

\* mouseReleaseEvent: a resize ends with the size of the pixmap the label
\* shows and the label's place; a drag with the label's place.
legacy_mouseReleaseEvent ==
    /\ IF active_image # None
       THEN LET u == active_image
                at == <<geom[u].x, geom[u].y>>
            IN  /\ props' = [props EXCEPT ![u] =
                      IF props[u].resizing
                      THEN [props[u] EXCEPT !.resizing = FALSE,
                                            !.size = props[u].label_pixmap,
                                            !.position = at]
                      ELSE [props[u] EXCEPT !.position = at]]
                /\ active_image' = None
       ELSE UNCHANGED <<props, active_image>>
    /\ UNCHANGED <<images, geom, stack, scaleFactor, grid_offset, adjust_mode,
                   last_pan_point, connecting, connection_start,
                   connection_preview_pos, connections, selected_connection,
                   created, crashed, menu>>

\* The pixmaps dropped on the earlier canvas and event.pos() of each drop.
LegacyDrops ==
    << [pixmap |-> <<100, 100>>, pos |-> <<100, 200>>],
       [pixmap |-> <<60, 30>>, pos |-> <<300, 200>>] >>

NextLegacyDrops ==
    { LegacyDrops[n] :
         n \in ({created + 1} \cap 1..MaxUnits) \cap DOMAIN LegacyDrops }

\* event.pos() of the moves: right of and below the first label's lower
\* right corner, below and left of it, and above and left of both labels.
LegacyMovePoints == { <<160, 260>>, <<140, 262>>, <<40, 130>> }

NextLegacy ==
    \/ \E d \in NextLegacyDrops : legacy_dropEvent(d.pixmap, d.pos)
    \/ \E u \in ImageSet : \E pos \in ResizePressPoints(geom[u]) :
          \E button \in Buttons : legacy_mousePressEvent(pos, button)
    \/ \E pos \in LegacyMovePoints, left \in BOOLEAN :
          /\ active_image # None
          /\ props[active_image].resizing
          /\ legacy_mouseMoveEvent(pos, left)
    \/ legacy_mouseReleaseEvent

SpecLegacy == Init /\ [][NextLegacy]_vars

(***************************************************************************)
(* Properties of the connection graph under unit deletion.                 *)
(***************************************************************************)
\* The units a unit id may name.
UnitIds == 1..Len(Drops)

\* C1: cascade delete.  In every reachable state every connection's start
\* and end are units currently in the registry (self.images), so that after
\* a unit is deleted no connection has it as its start or its end.
C1_ConnectionsReferToRegistry ==
    \A i \in 1..Len(connections) :
        /\ connections[i].start \in ImageSet
        /\ connections[i].end \in ImageSet

\* A step in which a right press deletes unit u through the unit menu.
DeleteStep(u) ==
    /\ u \in ImageSet
    /\ u \notin ImageSet'
    /\ \E pos \in GraphPressPoints : mousePressEvent(pos, "Right")

\* The connections of a list that do not touch unit u.
NotTouching(conns, u) ==
    SelectSeq(conns, LAMBDA c : c.start # u /\ c.end # u)

\* C2: deleting unit u changes nothing except u and the edges touching u.
\* Every other unit stays registered with its logical position and size,
\* the connections that do not touch u are the same, in the same order and
\* with the same kind, label and port, and scale and pan offset are
\* unchanged.
C2_DeleteFrame ==
    [][\A u \in UnitIds :
          DeleteStep(u) =>
             /\ \A v \in ImageSet \ {u} :
                   /\ v \in ImageSet'
                   /\ props'[v].position = props[v].position
                   /\ props'[v].size = props[v].size
             /\ NotTouching(connections', u) = NotTouching(connections, u)
             /\ scaleFactor' = scaleFactor
             /\ grid_offset' = grid_offset]_vars

\* A unit has been deleted while another unit and a connection that does
\* not touch the deleted unit are there.
C2_Witness ==
    /\ menu = "unit"
    /\ \E u \in UnitIds :
          /\ u <= created
          /\ u \notin ImageSet
          /\ ImageSet # {}
          /\ NotTouching(connections, u) # <<>>

(***************************************************************************)
(* Properties of the connect gesture.                                      *)
(***************************************************************************)
NoSelfLoops ==
    \A i \in 1..Len(connections) : connections[i].start # connections[i].end

\* Some container other than u holds pos.
OtherUnitAt(pos, u) == FirstContainerAt(pos, u) # None

\* A press at pos with `button` while a connect gesture from a registered
\* source is in progress.
ConnectingPress(pos, button) ==
    /\ connecting
    /\ connection_start \in ImageSet
    /\ mousePressEvent(pos, button)

\* C3 as stated: no connection starts and ends at the same unit, and a press
\* of a connect gesture that lands on the source unit adds no connection.
C3_AsStated ==
    /\ []NoSelfLoops
    /\ [][\A pos \in PressPoints, button \in Buttons :
            (/\ ConnectingPress(pos, button)
             /\ RectContains(geom[connection_start], pos))
               => Len(connections') <= Len(connections)]_vars

\* C3, amended: no connection starts and ends at the same unit, and a press
\* of a connect gesture that lands on the source unit and on no other unit
\* adds no connection.
C3_NoSelfLoops ==
    /\ []NoSelfLoops
    /\ [][\A pos \in PressPoints, button \in Buttons :
            (/\ ConnectingPress(pos, button)
             /\ RectContains(geom[connection_start], pos)
             /\ ~OtherUnitAt(pos, connection_start))
               => Len(connections') <= Len(connections)]_vars

\* A connection has been committed and a connect gesture is in progress
\* whose source alone lies under a press point, where a left press cancels
\* the gesture.
C3_Witness ==
    /\ connections # <<>>
    /\ connecting
    /\ \E pos \in PressPoints :
          /\ RectContains(geom[connection_start], pos)
          /\ ~OtherUnitAt(pos, connection_start)
          /\ ENABLED (/\ mousePressEvent(pos, "Left")
                      /\ ~connecting'
                      /\ connections' = connections)


\* The step appends exactly one connection, from s to t.
CommitsTo(s, t) ==
    /\ Len(connections') = Len(connections) + 1
    /\ SubSeq(connections', 1, Len(connections)) = connections
    /\ connections'[Len(connections')].start = s
    /\ connections'[Len(connections')].end = t

\* The step ends the connect gesture.
LeavesConnecting ==
    /\ ~connecting'
    /\ connection_start' = None
    /\ connection_preview_pos' = NoPoint

\* C4 as stated: while connecting from s, a press on a unit t other than s
\* appends exactly one connection s -> t, a press on empty canvas or on s
\* appends nothing, and either way the gesture ends with connection_start
\* and the preview position cleared.  The unit a press is on is the first
\* container in registry order that holds the point.
C4_AsStated ==
    [][\A pos \in PressPoints, button \in Buttons :
          ConnectingPress(pos, button) =>
             LET s == connection_start
                 t == FirstContainerAt(pos, None)
             IN  /\ LeavesConnecting
                 /\ IF t # None /\ t # s
                    THEN CommitsTo(s, t)
                    ELSE connections' = connections]_vars

\* C4, amended: while connecting from s, a right press at which the
\* connection hit-test stops at a connection (finds one, or fails reading a
\* deleted container) leaves the gesture in progress; any other press ends
\* the gesture with connection_start and the preview position cleared, and
\* appends exactly one connection from s to the first container in registry
\* order, s skipped, that holds the point, or nothing when there is none.
C4_ConnectGestureOutcome ==
    [][\A pos \in PressPoints, button \in Buttons :
          ConnectingPress(pos, button) =>
             LET s == connection_start
                 t == FirstContainerAt(pos, s)
             IN  IF button = "Right" /\ ConnAtStop(pos) # 0
                 THEN UNCHANGED <<connecting, connection_start,
                                  connection_preview_pos>>
                 ELSE /\ LeavesConnecting
                      /\ IF t # None
                         THEN CommitsTo(s, t)
                         ELSE connections' = connections]_vars

\* A connect gesture has been committed by a press on the overlap of its
\* source and its target, and the gesture is over.
C4_Witness ==
    /\ ~connecting
    /\ connection_start = None
    /\ connection_preview_pos = NoPoint
    /\ \E i \in 1..Len(connections), pos \in PressPoints :
          /\ ConnAlive(connections[i])
          /\ RectContains(geom[connections[i].start], pos)
          /\ RectContains(geom[connections[i].end], pos)


(***************************************************************************)
(* Properties of the interaction state.                                    *)
(***************************************************************************)
\* A unit is active for drag or resize.
UnitActive == active_image # None

\* A pan is in progress.
Panning == adjust_mode /\ last_pan_point # NoPoint

\* C5: the interaction states are mutually exclusive.  In every reachable
\* state at most one of these holds: a unit is active, a pan is in progress,
\* a connect gesture is in progress.
C5_StatesMutuallyExclusive ==
    /\ ~(UnitActive /\ Panning)
    /\ ~(UnitActive /\ connecting)
    /\ ~(Panning /\ connecting)


\* C6: right-click priority for connections.  In every state a right press
\* at a point where connection_at finds a connection offers the connection
\* context menu, starts no drag, resize or pan, neither commits nor cancels
\* a connect gesture, and leaves the connection list as it is unless Delete
\* is chosen, which removes the connection found.
C6_RightClickConnectionPriority ==
    [][\A pos \in PressPoints :
          (/\ connections # <<>>
           /\ connection_at(pos) # 0
           /\ mousePressEvent(pos, "Right")) =>
             /\ menu' = "conn"
             /\ UNCHANGED <<active_image, props, last_pan_point, grid_offset>>
             /\ UNCHANGED <<connecting, connection_start,
                            connection_preview_pos>>
             /\ \/ connections' = connections
                \/ connections' = RemoveAt(connections, connection_at(pos))]_vars

\* The connection menu has been offered by a right press during a connect
\* gesture in pan mode, with a unit still active.
C6_Witness ==
    /\ menu = "conn"
    /\ connecting
    /\ adjust_mode
    /\ UnitActive

\* C7: right-click on a unit.  In every state a right press on a unit, at a
\* point where the connection hit-test finds nothing, offers the unit
\* context menu, and the press appends no connection, makes no unit active
\* and starts no pan.
C7_RightClickUnitMenu ==
    [][\A pos \in PressPoints :
          (/\ FirstContainerAt(pos, None) # None
           /\ ConnAtStop(pos) = 0
           /\ mousePressEvent(pos, "Right")) =>
             /\ menu' = "unit"
             /\ Len(connections') <= Len(connections)
             /\ active_image' \in {active_image, None}
             /\ last_pan_point' = last_pan_point]_vars


(***************************************************************************)
(* Properties of the connections committed.                                *)
(***************************************************************************)
\* The label holds "if" in any mix of cases.
ContainsIfAnyCase(text) ==
    \E i \in 1..(Len(text) - 1) :
        text[i] \in {"i", "I"} /\ text[i + 1] \in {"f", "F"}

\* The connections of the list that leave unit u.
Leaving(u) == { i \in 1..Len(connections) : connections[i].start = u }

\* C8: connection kind policy.  A connection committed from a source whose
\* label holds "if" in any case has kind action, 3 ports in total, the port
\* that is the number of connections already leaving the source, and the
\* label if(u1 > 0) for port 0, elseif(u2 > 0) for port 1 and else
\* otherwise; a connection from any other source has kind data, an empty
\* label, port 0 and 1 port in total.
C8_ConnectionKindPolicy ==
    [][Len(connections') = Len(connections) + 1 =>
          LET c == connections'[Len(connections')]
              n == Cardinality(Leaving(c.start))
          IN  IF ContainsIfAnyCase(props[c.start].text_label.text)
              THEN /\ c.type = "action"
                   /\ c.total_ports = 3
                   /\ c.port = n
                   /\ c.label = IF n = 0 THEN "if(u1 > 0)"
                                ELSE IF n = 1 THEN "elseif(u2 > 0)"
                                ELSE "else"
              ELSE /\ c.type = "data"
                   /\ c.label = ""
                   /\ c.port = 0
                   /\ c.total_ports = 1]_vars

\* An if-block has committed three connections, on ports 0, 1 and 2, the
\* third labelled else.
C8_Witness ==
    /\ Len(connections) = 3
    /\ \A i \in 1..3 :
          /\ connections[i].type = "action"
          /\ connections[i].port = i - 1
    /\ connections[3].label = "else"
    /\ selected_connection = <<>>
    /\ menu = "none"

\* C9: connection uniqueness.  In every reachable state no two connections
\* of the list have the same start, end and port.
C9_UniqueStartEndPort ==
    \A i, j \in 1..Len(connections) :
        (/\ connections[i].start = connections[j].start
         /\ connections[i].end = connections[j].end
         /\ connections[i].port = connections[j].port) => i = j

\* C10: port fan-out.  Two connections that leave the same unit on
\* different ports have routed paths that start at different points.
C10_PortsStartApart ==
    \A i, j \in 1..Len(connections) :
        (/\ ConnAlive(connections[i])
         /\ ConnAlive(connections[j])
         /\ connections[i].start = connections[j].start
         /\ connections[i].port # connections[j].port) =>
            connection_path_points(connections[i])[1]
               # connection_path_points(connections[j])[1]



(***************************************************************************)
(* Properties of the routed path.                                          *)
(***************************************************************************)
\* The connections whose two containers are alive.
LiveConnections ==
    { i \in 1..Len(connections) : ConnAlive(connections[i]) }

\* The forward path as the specification words it, from S to E.
ForwardPath(S, E) ==
    IF Abs(S[2] - E[2]) < 48
    THEN << S, <<S[1] + 24, S[2]>>, <<S[1] + 24, E[2]>>,
            <<E[1] - 24, E[2]>>, E >>
    ELSE << S, <<S[1] + 24, S[2]>>, <<S[1] + 24, (S[2] + E[2]) \div 2>>,
            <<E[1] - 24, (S[2] + E[2]) \div 2>>, <<E[1] - 24, E[2]>>, E >>

\* C11: forward routing.  With S the right-centre of the start rectangle
\* and E the left-centre of the end rectangle, the path of a connection is
\* the forward path (S, 24 to the right, a direct elbow when the ends are
\* less than 48 apart vertically and an elbow through the vertical midpoint
\* otherwise, 24 left of E, E) exactly when S.x < E.x - 24.
C11_ForwardRouting ==
    \A i \in LiveConnections :
        LET sr == geom[connections[i].start]
            er == geom[connections[i].end]
            S == StartPos(sr)
            E == EndPos(er)
        IN  (S[1] < E[1] - 24)
               <=> (connection_path_points(connections[i]) = ForwardPath(S, E))

\* A forward connection with an elbow through the midpoint has been routed
\* and hit by a right press.
C11_Witness ==
    /\ menu = "conn"
    /\ \E i \in LiveConnections :
          LET S == StartPos(geom[connections[i].start])
              E == EndPos(geom[connections[i].end])
          IN  S[1] < E[1] - 24 /\ Abs(S[2] - E[2]) >= 48

\* The loopback path as the specification words it.
LoopbackPath(sr, er) ==
    LET S == StartPos(sr)
        E == EndPos(er)
        run == Min(sr.y, er.y) - 60
    IN  << S, <<S[1] + 24, S[2]>>, <<S[1] + 24, run>>, <<er.x - 60, run>>,
           <<er.x - 60, E[2]>>, <<E[1] - 24, E[2]>>, E >>

\* C12: loopback routing.  When S.x >= E.x - 24 the path is S, 24 to the
\* right, up to 60 above the higher of the two tops, left to 60 before the
\* end rectangle's left edge, to E's height, 24 left of E, E; its horizontal
\* run lies at least 60 above the top of both rectangles.
C12_LoopbackRouting ==
    \A i \in LiveConnections :
        LET sr == geom[connections[i].start]
            er == geom[connections[i].end]
            pts == connection_path_points(connections[i])
        IN  StartPos(sr)[1] >= EndPos(er)[1] - 24 =>
               /\ pts = LoopbackPath(sr, er)
               /\ pts[3][2] = pts[4][2]
               /\ pts[3][2] <= sr.y - 60
               /\ pts[3][2] <= er.y - 60

\* A loopback connection whose end rectangle's top is above the start
\* rectangle's has been routed and hit by a right press.
C12_Witness ==
    /\ menu = "conn"
    /\ \E i \in LiveConnections :
          LET sr == geom[connections[i].start]
              er == geom[connections[i].end]
          IN  StartPos(sr)[1] >= EndPos(er)[1] - 24 /\ er.y < sr.y

\* The axis-parallel segment p-q holds a point of the interior of r.
ThroughInterior(p, q, r) ==
    /\ Max(Min(p[1], q[1]), r.x + 1) <= Min(Max(p[1], q[1]), RectRight(r) - 1)
    /\ Max(Min(p[2], q[2]), r.y + 1) <= Min(Max(p[2], q[2]), RectBottom(r) - 1)

\* C13: loopback clearance.  For every connection between two different
\* rectangles routed by the loopback branch, no segment of the path passes
\* through the interior of the start rectangle or of the end rectangle.
C13_LoopbackClearance ==
    \A i \in LiveConnections :
        LET sr == geom[connections[i].start]
            er == geom[connections[i].end]
            pts == connection_path_points(connections[i])
        IN  (sr # er /\ StartPos(sr)[1] >= EndPos(er)[1] - 24) =>
               \A k \in 1..(Len(pts) - 1) :
                   /\ ~ThroughInterior(pts[k], pts[k + 1], sr)
                   /\ ~ThroughInterior(pts[k], pts[k + 1], er)


(***************************************************************************)
(* Properties of the hit tests.                                            *)
(***************************************************************************)
\* The square of the distance from pt to the axis-parallel segment p-q.
SegDist2(pt, p, q) ==
    LET cx == Max(Min(p[1], q[1]), Min(pt[1], Max(p[1], q[1])))
        cy == Max(Min(p[2], q[2]), Min(pt[2], Max(p[2], q[2])))
    IN  (pt[1] - cx) * (pt[1] - cx) + (pt[2] - cy) * (pt[2] - cy)

\* Some segment of some connection's path is at most d away from pt.
WithinOfPath(pt, d) ==
    \E i \in LiveConnections :
        LET pts == connection_path_points(connections[i])
        IN  \E k \in 1..(Len(pts) - 1) :
               SegDist2(pt, pts[k], pts[k + 1]) <= d * d

\* C14: connection hit-test bounds.  For every screen point, connection_at
\* returns a connection when the point lies on or within 8 px of a segment
\* of some connection's path, and returns none when the point is more than
\* 9 px away from every segment of every connection's path.
C14_HitTestBounds ==
    \A pos \in HitPoints :
        /\ WithinOfPath(pos, 8) => connection_at(pos) # 0
        /\ ~WithinOfPath(pos, 9) => connection_at(pos) = 0


\* The units whose screen rectangle holds pos.
Holders(pos) == { u \in ImageSet : RectContains(geom[u], pos) }

\* The first of a set of units in registry insertion order (unit ids are
\* given out in insertion order); None for the empty set.
FirstOf(units) ==
    IF units = {} THEN None ELSE CHOOSE u \in units : \A v \in units : u <= v

\* The first connection in list order that pos hits (0: none).
FirstConnectionAt(pos) ==
    LET hits == { i \in LiveConnections : ConnHit(connections[i], pos) }
    IN  IF hits = {} THEN 0 ELSE CHOOSE i \in hits : \A j \in hits : i <= j

\* What a press at pos did to a unit other than committing a connection:
\* it selected `first`, started a connect gesture from it through its menu,
\* or deleted it through its menu; and the connection it found, if any, is
\* the first in list order.
ActsOnFirst(pos) ==
    LET first == FirstOf(Holders(pos))
        fc == FirstConnectionAt(pos)
    IN  /\ (images' = images /\ (active_image' # active_image \/ props' # props))
              => active_image' = first
        /\ (menu' = "unit" /\ connecting') => connection_start' = first
        /\ (menu' = "unit" /\ images' # images) => ImageSet \ ImageSet' = {first}
        /\ menu' = "conn" =>
              /\ fc # 0
              /\ \/ connections' = connections
                       /\ selected_connection' = <<connections[fc]>>
                 \/ connections' = RemoveAt(connections, fc)
                       /\ selected_connection' = <<>>

\* C15 as stated: a press acts on the first unit, in registry insertion
\* order, that holds the point, whether it selects it, offers it the
\* context menu or takes it as the target of a connect gesture; and
\* connection_at returns the first matching connection in list order.
C15_AsStated ==
    [][\A pos \in OverlapPressPoints, button \in Buttons :
          mousePressEvent(pos, button) =>
             /\ ActsOnFirst(pos)
             /\ Len(connections') > Len(connections) =>
                   connections'[Len(connections')].end = FirstOf(Holders(pos))
      ]_vars

\* C15: hit-test tie-break.  A press in the overlap of several units acts
\* on the first unit, in registry insertion order, that holds the point,
\* whichever unit was raised last; the target of a connect gesture is the
\* first such unit other than the gesture's source; connection_at returns
\* the first matching connection in list order.
C15_HitTestTieBreak ==
    [][\A pos \in OverlapPressPoints, button \in Buttons :
          mousePressEvent(pos, button) =>
             /\ ActsOnFirst(pos)
             /\ Len(connections') > Len(connections) =>
                   connections'[Len(connections')].end =
                       FirstOf(Holders(pos) \ {connection_start})
      ]_vars

\* Unit 1 was selected by a press in the overlap of all three units after
\* unit 3 had been raised, a connect gesture from unit 1 ended on unit 2 at
\* the same point, and a right press that hits two different connections
\* selected the first of the list.
C15_Witness ==
    /\ active_image = 1
    /\ 3 \in ImageSet
    /\ props[3].current_image_offset # <<>>
    /\ Len(connections) = 2
    /\ connections[1].start = 1 /\ connections[1].end = 2
    /\ connections[2] # connections[1]
    /\ ConnAlive(connections[2])
    /\ ConnHit(connections[1], <<100, 230>>)
    /\ ConnHit(connections[2], <<100, 230>>)
    /\ menu = "conn"
    /\ selected_connection = <<connections[1]>>


(***************************************************************************)
(* Properties of resizing.                                                 *)
(***************************************************************************)
\* The four corners, in the order get_resize_corner tests them.
CornerNames == <<"top_left", "top_right", "bottom_left", "bottom_right">>

\* The 10 px square in corner c of rectangle r.
CornerSquare(r, c) ==
    [x |-> IF c \in {"top_left", "bottom_left"} THEN r.x ELSE r.x + r.w - 10,
     y |-> IF c \in {"top_left", "top_right"} THEN r.y ELSE r.y + r.h - 10,
     w |-> 10, h |-> 10]

\* The corners of r whose square holds pos, as indices of CornerNames.
SquaresHolding(r, pos) ==
    { k \in 1..4 : RectContains(CornerSquare(r, CornerNames[k]), pos) }

\* Points of r on, next to and between the borders of its corner squares.
ProbePoints(r) ==
    LET along(lo, hi) == { lo, lo + 5, lo + 9, lo + 10,
                           hi - 10, hi - 9, hi - 5, hi }
    IN  { <<x, y>> : x \in along(r.x, RectRight(r)),
                     y \in along(r.y, RectBottom(r)) }

\* C16 as stated: for every unit rectangle and every point at most one of
\* the four corner squares holds the point, and a left press inside a
\* corner square starts a resize of that corner.
C16_AsStated ==
    /\ [](\A u \in ImageSet : \A pos \in ProbePoints(geom[u]) :
             Cardinality(SquaresHolding(geom[u], pos)) <= 1)
    /\ [][\A u \in ImageSet : \A pos \in ResizePressPoints(geom[u]) :
             \A k \in SquaresHolding(geom[u], pos) :
                mousePressEvent(pos, "Left") =>
                   /\ active_image' = u
                   /\ props'[u].resizing
                   /\ props'[u].resize_corner = CornerNames[k]
         ]_vars

\* C16: resize corner test.  For every unit rectangle at least 20 px wide
\* and high and every point, at most one of the four corner squares holds
\* the point; a left press inside a corner square of a unit makes the unit
\* active and starts a resize of the first corner, in the order top-left,
\* top-right, bottom-left, bottom-right, whose square holds the point.
C16_ResizeCornerTest ==
    /\ [](\A u \in ImageSet : \A pos \in ProbePoints(geom[u]) :
             (geom[u].w >= 20 /\ geom[u].h >= 20) =>
                Cardinality(SquaresHolding(geom[u], pos)) <= 1)
    /\ [][\A u \in ImageSet : \A pos \in ResizePressPoints(geom[u]) :
             LET held == SquaresHolding(geom[u], pos)
             IN  (held # {} /\ mousePressEvent(pos, "Left")) =>
                    /\ active_image' = u
                    /\ props'[u].resizing
                    /\ props'[u].resize_corner =
                          CornerNames[CHOOSE k \in held : \A j \in held : k <= j]
         ]_vars

\* The narrow unit was pressed where its top-left and top-right squares
\* overlap, and a resize of its top-left corner has started.
C16_Witness ==
    /\ active_image = 2
    /\ geom[2].w < 20
    /\ props[2].resizing
    /\ props[2].resize_corner = "top_left"
    /\ props[2].current_image_offset = <<RInt(8), RInt(3)>>
    /\ Cardinality(SquaresHolding(geom[2], <<geom[2].x + 8, geom[2].y + 3>>)) = 2


\* Corner c of rectangle r, as QRect names it.
Corner(r, c) ==
    << IF c \in {"top_left", "bottom_left"} THEN r.x ELSE RectRight(r),
       IF c \in {"top_left", "top_right"} THEN r.y ELSE RectBottom(r) >>

Opposite(c) ==
    IF c = "top_left" THEN "bottom_right"
    ELSE IF c = "top_right" THEN "bottom_left"
    ELSE IF c = "bottom_left" THEN "top_right"
    ELSE "top_left"

\* Where the pointer was when the press started the resize of unit u: the
\* press stored its distance from the unit's position in resizing_offset.
ResizePressPoint(u) ==
    LET at == ToScreen(props[u].position, scaleFactor, grid_offset)
    IN  << at[1] + PyInt(RMul(props[u].resizing_offset[1], scaleFactor)),
           at[2] + PyInt(RMul(props[u].resizing_offset[2], scaleFactor)) >>

\* C17: corner-relative resize.  A pointer move during a resize of corner c
\* of a unit, whose rectangle is still as the press found it, moves corner
\* c by as much as the pointer has moved since the press and leaves the
\* diagonally opposite corner where it was.
C17_CornerRelativeResize ==
    [][\A u \in ImageSet : \A pos \in ResizeMovePoints, left \in BOOLEAN :
          ( /\ active_image = u
            /\ props[u].resizing
            /\ geom[u] = ScaledGeom(props[u], scaleFactor, grid_offset)
            /\ mouseMoveEvent(pos, left) ) =>
             LET c == props[u].resize_corner
                 press == ResizePressPoint(u)
             IN  /\ Corner(geom'[u], c) =
                       << Corner(geom[u], c)[1] + pos[1] - press[1],
                          Corner(geom[u], c)[2] + pos[2] - press[2] >>
                 /\ Corner(geom'[u], Opposite(c)) = Corner(geom[u], Opposite(c))
      ]_vars


LegacyPressPoint(u) ==
    << props[u].position[1] + props[u].resizing_offset[1],
       props[u].position[2] + props[u].resizing_offset[2] >>

\* Every unit's rectangle and every unit's size is at least 1 x 1.
PositiveSizes ==
    \A u \in ImageSet :
       /\ geom[u].w >= 1 /\ geom[u].h >= 1
       /\ props[u].size[1] >= 1 /\ props[u].size[2] >= 1

\* C19: positive size.  In every reachable state, in the middle of a resize
\* gesture too, every unit's width and height are at least 1; and a resize
\* move of the bottom right corner to a point strictly right of and below
\* the press point decreases neither the width nor the height the press
\* found, so that the rectangle, which held the press point, still holds it.
C19_PositiveSize ==
    /\ []PositiveSizes
    /\ [][\A u \in ImageSet : \A pos \in LegacyMovePoints, left \in BOOLEAN :
             ( /\ active_image = u
               /\ props[u].resizing
               /\ props[u].resize_corner = "bottom_right"
               /\ pos[1] > LegacyPressPoint(u)[1]
               /\ pos[2] > LegacyPressPoint(u)[2]
               /\ legacy_mouseMoveEvent(pos, left) ) =>
                RectContains(geom'[u], LegacyPressPoint(u))
         ]_vars


(***************************************************************************)
(* Properties of the coordinate conversions.                               *)
(***************************************************************************)
\* C20: coordinate round trip.  For the logical position p of every unit
\* and the view the canvas is in, p converted to screen coordinates as
\* updateImageScaling and a drag move convert it, and back to logical
\* coordinates as a drop and a release convert it, is p again.
C20_CoordinateRoundTrip ==
    \A u \in ImageSet :
       ToLogical(ToScreen(props[u].position, scaleFactor, grid_offset),
                 scaleFactor, grid_offset) = props[u].position


(***************************************************************************)
(* Claims about the view: zoom, fit, and the gestures under a view.        *)
(***************************************************************************)
\* A zoom step back to the scale of this state puts the unit where it is
\* now: updateImageScaling derives the screen position from the logical
\* position, the scale and the pan offset, and this is the only outcome.
ZoomSettled(u) ==
    ToScreens(props[u].position, scaleFactor, grid_offset) =
        { <<geom[u].x, geom[u].y>> }

\* C21: zoom round trip.  Zoom steps that end at net zero return the scale
\* and every unit's screen position to their values before the steps, and
\* no zoom step changes a logical position or size: multiplying and
\* dividing by the zoom ratio cancel, every unit is on screen where a zoom
\* step back to the current scale puts it, and a zoom step leaves position
\* and size of every unit as they are.
C21_ZoomRoundTrip ==
    /\ [](/\ RDiv(RMul(scaleFactor, ZoomRatio), ZoomRatio) = scaleFactor
          /\ RMul(RDiv(scaleFactor, ZoomRatio), ZoomRatio) = scaleFactor)
    /\ [](\A u \in ImageSet : ZoomSettled(u))
    /\ [][\A key \in {"+", "-"} :
             keyPressEvent(key) =>
                \A u \in ImageSet :
                   /\ props'[u].position = props[u].position
                   /\ props'[u].size = props[u].size]_vars

GrownBox ==
    LET U == ImageSet
        left == RMinOf({ props[u].position[1] : u \in U })
        top == RMinOf({ props[u].position[2] : u \in U })
        right == RMaxOf({ RAdd(props[u].position[1], RInt(props[u].size[1])) :
                             u \in U })
        bottom == RMaxOf({ RAdd(props[u].position[2],
                                RInt(props[u].size[2])) : u \in U })
    IN  << RSub(left, RInt(FitMargin)), RSub(top, RInt(FitMargin)),
           RAdd(right, RInt(FitMargin)), RAdd(bottom, RInt(FitMargin)) >>

RAbsLeq(a, b) == RLeq(a, b) /\ RLeq(RSub(RInt(0), b), a)

\* The box lo..hi, scaled and shifted by offset, has as much room on its
\* left as on its right in a canvas of the given extent, to the pixel.
Centred(lo, hi, scale, offset, extent) ==
    LET before == RAdd(RMul(lo, scale), RInt(offset))
        after == RSub(RInt(extent), RAdd(RMul(hi, scale), RInt(offset)))
    IN  RAbsLeq(RSub(before, after), RInt(2))

\* C23: fit to contents.  A click on Reset with at least one unit on the
\* canvas sets the scale to the least of viewport width / box width,
\* viewport height / box height and 1, where the box is the bounding box of
\* the units' logical rectangles grown by 40; it sets the pan offset so
\* that the scaled box is centred in the viewport (to the pixel); it leaves
\* logical positions, sizes and the connection list as they are.
C23_FitToContents ==
    [][\A size \in Viewports :
          ( /\ images # <<>>
            /\ ResetInExtent
            /\ resetButtonClicked(size[1], size[2]) ) =>
             LET box == GrownBox
                 bw == RSub(box[3], box[1])
                 bh == RSub(box[4], box[2])
                 s == scaleFactor'
             IN  /\ RLeq(s, RInt(1))
                 /\ RLeq(RMul(s, bw), RInt(size[1]))
                 /\ RLeq(RMul(s, bh), RInt(size[2]))
                 /\ \/ s = RInt(1)
                    \/ RMul(s, bw) = RInt(size[1])
                    \/ RMul(s, bh) = RInt(size[2])
                 /\ Centred(box[1], box[3], s, grid_offset'[1], size[1])
                 /\ Centred(box[2], box[4], s, grid_offset'[2], size[2])
                 /\ \A u \in ImageSet :
                       /\ props'[u].position = props[u].position
                       /\ props'[u].size = props[u].size
                 /\ connections' = connections]_vars

\* A fit has scaled two connected units down to a half.
C23_Witness ==
    /\ Len(images) = 2
    /\ connections # <<>>
    /\ scaleFactor = <<1, 2>>
    /\ grid_offset # <<0, 0>>


\* The bounding box of the units' logical rectangles has no area.
ZeroAreaDiagram ==
    /\ images # <<>>
    /\ LET box == GrownBox
       IN  \/ RSub(box[3], box[1]) = RInt(2 * FitMargin)
           \/ RSub(box[4], box[2]) = RInt(2 * FitMargin)

C25_KeyboardZoomAnyState ==
    [][\A key \in {"+", "-"} :
          keyPressEvent(key) =>
             /\ scaleFactor' = IF key = "+" THEN RMul(scaleFactor, ZoomRatio)
                                            ELSE RDiv(scaleFactor, ZoomRatio)
             /\ adjust_mode' = adjust_mode
             /\ active_image' = active_image
             /\ last_pan_point' = last_pan_point
             /\ connecting' = connecting
             /\ connection_start' = connection_start
             /\ connections' = connections
             /\ grid_offset' = grid_offset
             /\ images' = images
             /\ \A u \in ImageSet :
                   /\ props'[u].position = props[u].position
                   /\ props'[u].size = props[u].size
                   /\ props'[u].resizing = props[u].resizing
                   /\ props'[u].resize_corner = props[u].resize_corner
                   /\ props'[u].resizing_offset = props[u].resizing_offset]_vars

\* The view was zoomed while a unit was being resized: the resize started
\* in the default view.
C25_Witness ==
    /\ active_image # None
    /\ props[active_image].resizing
    /\ scaleFactor = ZoomRatio

\* C26: no stale references.  In every reachable state the active unit, the
\* source of the connect gesture and the end points of the connections
\* that the move, release, paint and hit-test handlers look up are units
\* of self.images.
C26_NoStaleReferences ==
    /\ active_image # None => active_image \in ImageSet
    /\ connection_start # None => connection_start \in ImageSet
    /\ \A i \in 1..Len(connections) :
          {connections[i].start, connections[i].end} \subseteq ImageSet
    /\ \A i \in 1..Len(selected_connection) :
          {selected_connection[i].start, selected_connection[i].end}
             \subseteq ImageSet

\* C27: createUnit.  A drop at screen point d, under any scale and pan
\* offset, adds exactly one unit and leaves the units and connections that
\* exist as they are; the screen position derived from the new unit's
\* logical position is d minus half the size of its container, and its
\* logical size is its original size.
C27_CreateUnit ==
    [][\A n \in DOMAIN ViewDrops :
          LET d == ViewDrops[n]
              id == created'
          IN  dropEvent(d.text, d.pixmap, d.text_size, d.pos) =>
                 /\ ImageSet' = ImageSet \cup {id}
                 /\ id \notin ImageSet
                 /\ \A u \in ImageSet :
                       props'[u] = props[u] /\ geom'[u] = geom[u]
                 /\ connections' = connections
                 /\ ToScreens(props'[id].position, scaleFactor', grid_offset')
                       = { << d.pos[1] - (geom'[id].w \div 2),
                              d.pos[2] - (geom'[id].h \div 2) >> }
                 /\ props'[id].size = props'[id].original_size]_vars

\* C28: moveUnit frame.  A pointer move that drags a unit changes that
\* unit's logical position, to the pointer's logical position (which the
\* canvas keeps in whole units) minus the grab offset taken at the press,
\* and nothing else of the diagram: the unit's other properties and its
\* rendered size, every other unit, the connections, the scale and the pan
\* offset stay as they were.
C28_MoveUnitFrame ==
    [][\A pos \in ViewMovePoints :
          (Drags(TRUE) /\ mouseMoveEvent(pos, TRUE)) =>
             LET u == active_image
                 mouse == ToLogicalQPoint(pos, scaleFactor, grid_offset)
                 grab == props[u].current_image_offset
             IN  /\ props'[u] =
                       [props[u] EXCEPT
                          !.position = <<RSub(RInt(mouse[1]), grab[1]),
                                         RSub(RInt(mouse[2]), grab[2])>>]
                 /\ geom'[u].w = geom[u].w /\ geom'[u].h = geom[u].h
                 /\ images' = images
                 /\ \A v \in ImageSet \ {u} :
                       props'[v] = props[v] /\ geom'[v] = geom[v]
                 /\ connections' = connections
                 /\ scaleFactor' = scaleFactor
                 /\ grid_offset' = grid_offset]_vars

\* A unit has been dragged at 110% beside another unit: the pointer is at
\* <<150, 260>>, in logical units <<136, 236>>.
C28_Witness ==
    /\ Len(images) = 2
    /\ active_image # None
    /\ scaleFactor = ZoomRatio
    /\ grid_offset = <<0, 0>>
    /\ ~AsDropped(active_image)
    /\ RAdd(props[active_image].position[1],
            props[active_image].current_image_offset[1]) = RInt(136)
    /\ RAdd(props[active_image].position[2],
            props[active_image].current_image_offset[2]) = RInt(236)

\* C29: the logical position is the single source of truth.  A left release
\* that ends the press on the body of a unit which has not been moved (it
\* is where it was dropped), at any scale and pan offset, leaves the unit's
\* logical position exactly as it was.
C29_ReleaseKeepsPosition ==
    [][\A u \in ImageSet :
          ( /\ active_image = u
            /\ ~props[u].resizing
            /\ AsDropped(u)
            /\ ~adjust_mode
            /\ mouseReleaseEvent("Left") ) =>
             props'[u].position = props[u].position]_vars

\* C30: release ends the gesture.  After any left release, whatever
\* happened between the press and the release, no unit is active and no
\* unit has its resizing flag set.
C30_ReleaseEndsGesture ==
    [][mouseReleaseEvent("Left") =>
          /\ active_image' = None
          /\ \A u \in ImageSet' : ~props'[u].resizing]_vars

(***************************************************************************)
(* Claims about the gestures: drag, resize, pan, and the connections.      *)
(***************************************************************************)
\* A left press at pos lands on the body of unit u, outside its corner
\* squares, and selects it.
BodyPress(u, pos) ==
    /\ SelectsAt(pos, "Left")
    /\ FirstContainerAt(pos, None) = u
    /\ get_resize_corner(pos, geom[u]) = "none"

\* C31: body press means drag.  In every reachable state a unit whose
\* resizing flag is set is the active unit, and a left press on the body of
\* a unit outside its corner squares leaves the unit with its resizing flag
\* clear, so that the moves that follow drag it and do not resize it.
C31_BodyPressMeansDrag ==
    /\ [](\A u \in ImageSet : props[u].resizing => active_image = u)
    /\ [][\A u \in ImageSet : \A pos \in ViewPressPoints :
             (BodyPress(u, pos) /\ mousePressEvent(pos, "Left")) =>
                ~props'[u].resizing]_vars

\* C32: panning.  While adjust mode is on and no connect gesture is in
\* progress, a left press anywhere, also on a unit, starts a pan and makes
\* no unit active; every move that follows adds the pointer's distance
\* from the previous event to the pan offset and leaves every unit's
\* logical position and size, the scale and the connections as they were.
C32_Panning ==
    /\ [][\A pos \in PressPoints :
             (adjust_mode /\ ~connecting /\ mousePressEvent(pos, "Left")) =>
                /\ last_pan_point' = pos
                /\ active_image' = active_image
                /\ grid_offset' = grid_offset
                /\ props' = props
                /\ connections' = connections]_vars
    /\ [][\A pos \in MovePoints, left \in BOOLEAN :
             ( /\ adjust_mode /\ ~connecting
               /\ last_pan_point # NoPoint
               /\ mouseMoveEvent(pos, left) ) =>
                /\ grid_offset' =
                      << grid_offset[1] + pos[1] - last_pan_point[1],
                         grid_offset[2] + pos[2] - last_pan_point[2] >>
                /\ last_pan_point' = pos
                /\ scaleFactor' = scaleFactor
                /\ connections' = connections
                /\ active_image' = active_image
                /\ \A u \in ImageSet :
                      /\ props'[u].position = props[u].position
                      /\ props'[u].size = props[u].size]_vars

\* A pan has moved the view by <<160, 0>>: it started with the press at
\* <<100, 200>>, on the first unit, and no unit is active.
C32_Witness ==
    /\ adjust_mode
    /\ 1 \in ImageSet
    /\ active_image = None
    /\ last_pan_point = <<260, 200>>
    /\ grid_offset = <<160, 0>>

\* C33: panning stops on release or when the mode is toggled off.  A left
\* release in adjust mode ends the pan; when adjust mode has been switched
\* off during a pan and is switched on again, no pan is in progress; and a
\* move outside a pan (adjust mode off, or no pan started) leaves the pan
\* offset as it is.  So no move changes the pan offset until a new left
\* press in adjust mode.
C33_PanStops ==
    /\ [][(adjust_mode /\ mouseReleaseEvent("Left")) =>
             last_pan_point' = NoPoint]_vars
    /\ [][(toggleAdjustMode /\ adjust_mode') =>
             last_pan_point' = NoPoint]_vars
    /\ [][\A pos \in MovePoints, left \in BOOLEAN :
             ( /\ ~adjust_mode \/ last_pan_point = NoPoint
               /\ mouseMoveEvent(pos, left) ) =>
                grid_offset' = grid_offset]_vars

\* C34: adjust mode disables zoom and reset.  While adjust mode is on no
\* zoom in, zoom out or reset of the view takes effect: the scale changes in
\* no step taken with adjust_mode true.
C34_AdjustDisablesZoom ==
    [][adjust_mode => scaleFactor' = scaleFactor]_vars


\* C35: removing a connection.  A right press on a connection either leaves
\* the list as it is (menu dismissed) or, with Delete, removes exactly one
\* entry equal to the selected connection, keeps the order of the others and
\* clears selected_connection; the units are untouched either way.  In every
\* reachable state selected_connection, when set, is an entry of the list.
C35_RemoveConnection ==
    /\ [](selected_connection # <<>> =>
             \E i \in 1..Len(connections) :
                connections[i] = selected_connection[1])
    /\ [][\A pos \in GraphPressPoints \cup OverlapPressPoints :
             ( /\ connection_at(pos) # 0
               /\ mousePressEvent(pos, "Right") ) =>
                LET hit == connections[connection_at(pos)]
                IN  /\ \/ /\ connections' = connections
                          /\ selected_connection' = <<hit>>
                       \/ /\ \E i \in 1..Len(connections) :
                                /\ connections[i] = hit
                                /\ connections' = RemoveAt(connections, i)
                          /\ selected_connection' = <<>>
                    /\ images' = images
                    /\ props' = props
                    /\ geom' = geom]_vars

\* Delete was chosen on the menu of one of two connections: the other one
\* is still in the list and nothing is selected.
C35_Witness ==
    /\ menu = "conn"
    /\ selected_connection = <<>>
    /\ Len(connections) = 1


(***************************************************************************)
(* The three copies of the routing code.  paintEvent and connection_path   *)
(* build a QPainterPath, connection_path_points a list of tuples.          *)
(***************************************************************************)
\* offset and gap of the committed connections in paintEvent.
PaintOffset == 24

PaintGap == 60

\* offset and gap in connection_path.
PathOffset == 24

PathGap == 60

\* QPainterPath.lineTo(p): a line to the current position adds no element.
LineTo(path, p) ==
    IF path[Len(path)] = p THEN path ELSE Append(path, p)

\* The elements of the QPainterPath made by moveTo(pts[1]) and a lineTo for
\* every later point.
RECURSIVE PainterPath(_)
PainterPath(pts) ==
    IF Len(pts) = 1 THEN pts
    ELSE LineTo(PainterPath(SubSeq(pts, 1, Len(pts) - 1)), pts[Len(pts)])

\* PaintRoute with a plausible slip: the loopback rises above the start
\* rectangle only.
PaintRoute_above_start(sr, er) ==
    LET S == <<RectRight(sr), sr.y + (sr.h \div 2)>>
        E == <<er.x, er.y + (er.h \div 2)>>
    IN  IF S[1] < E[1] - PaintOffset
        THEN LET p1 == <<S[1] + PaintOffset, S[2]>>
                 p2 == <<E[1] - PaintOffset, E[2]>>
             IN  IF Abs(S[2] - E[2]) < 2 * PaintOffset
                 THEN PainterPath(<<S, p1, <<p1[1], E[2]>>, p2, E>>)
                 ELSE LET mid_y == (S[2] + E[2]) \div 2
                      IN  PainterPath(<<S, p1, <<p1[1], mid_y>>,
                                        <<p2[1], mid_y>>, p2, E>>)
        ELSE LET top == sr.y
                 p1 == <<S[1] + PaintOffset, S[2]>>
                 p2 == <<p1[1], top - PaintGap>>
                 p3 == <<er.x - PaintGap, p2[2]>>
                 p4 == <<p3[1], E[2]>>
                 p5 == <<E[1] - PaintOffset, E[2]>>
             IN  PainterPath(<<S, p1, p2, p3, p4, p5, E>>)

\* The path paintEvent draws for a committed connection.
PaintRoute(sr, er) ==
    LET S == <<RectRight(sr), sr.y + (sr.h \div 2)>>
        E == <<er.x, er.y + (er.h \div 2)>>
    IN  IF S[1] < E[1] - PaintOffset
        THEN LET p1 == <<S[1] + PaintOffset, S[2]>>
                 p2 == <<E[1] - PaintOffset, E[2]>>
             IN  IF Abs(S[2] - E[2]) < 2 * PaintOffset
                 THEN PainterPath(<<S, p1, <<p1[1], E[2]>>, p2, E>>)
                 ELSE LET mid_y == (S[2] + E[2]) \div 2
                      IN  PainterPath(<<S, p1, <<p1[1], mid_y>>,
                                        <<p2[1], mid_y>>, p2, E>>)
        ELSE LET top == Min(sr.y, er.y)
                 p1 == <<S[1] + PaintOffset, S[2]>>
                 p2 == <<p1[1], top - PaintGap>>
                 p3 == <<er.x - PaintGap, p2[2]>>
                 p4 == <<p3[1], E[2]>>
                 p5 == <<E[1] - PaintOffset, E[2]>>
             IN  PainterPath(<<S, p1, p2, p3, p4, p5, E>>)

PaintedPath(c) == PaintRoute(geom[c.start], geom[c.end])

\* The path connection_path returns.
PathRoute(sr, er) ==
    LET S == <<RectRight(sr), sr.y + (sr.h \div 2)>>
        E == <<er.x, er.y + (er.h \div 2)>>
    IN  IF S[1] < E[1] - PathOffset
        THEN LET p1 == <<S[1] + PathOffset, S[2]>>
                 p2 == <<E[1] - PathOffset, E[2]>>
             IN  IF Abs(S[2] - E[2]) < 2 * PathOffset
                 THEN PainterPath(<<S, p1, <<p1[1], E[2]>>, p2, E>>)
                 ELSE LET mid_y == (S[2] + E[2]) \div 2
                      IN  PainterPath(<<S, p1, <<p1[1], mid_y>>,
                                        <<p2[1], mid_y>>, p2, E>>)
        ELSE LET top == Min(sr.y, er.y)
                 p1 == <<S[1] + PathOffset, S[2]>>
                 p2 == <<p1[1], top - PathGap>>
                 p3 == <<er.x - PathGap, p2[2]>>
                 p4 == <<p3[1], E[2]>>
                 p5 == <<E[1] - PathOffset, E[2]>>
             IN  PainterPath(<<S, p1, p2, p3, p4, p5, E>>)

connection_path(c) == PathRoute(geom[c.start], geom[c.end])

\* C36 as stated: routing is one function of the two screen rectangles, and
\* the path paintEvent draws, the path connection_path returns and the list
\* connection_path_points returns are the same point sequence.
C36_SamePointSequence ==
    \A i \in LiveConnections :
       /\ PaintedPath(connections[i]) = connection_path(connections[i])
       /\ connection_path(connections[i]) =
             connection_path_points(connections[i])

\* C36: routing is one function of the two screen rectangles.  The path
\* paintEvent draws and the path connection_path returns are the same point
\* sequence; it is the list connection_path_points returns with every point
\* that repeats its predecessor left out, hence the same polyline; and two
\* connections with the same ends have the same polyline whatever their
\* kind, label and port.
C36_SamePolyline ==
    /\ \A i \in LiveConnections :
          /\ PaintedPath(connections[i]) = connection_path(connections[i])
          /\ connection_path(connections[i]) =
                PainterPath(connection_path_points(connections[i]))
    /\ \A i, j \in LiveConnections :
          ( /\ connections[i].start = connections[j].start
            /\ connections[i].end = connections[j].end ) =>
             /\ PaintedPath(connections[i]) = PaintedPath(connections[j])
             /\ connection_path(connections[i]) =
                   connection_path(connections[j])
             /\ connection_path_points(connections[i]) =
                   connection_path_points(connections[j])

\* Two connections with the same ends and different ports, routed with a
\* segment of length zero, next to a loopback connection.
C36_Witness ==
    /\ \E i, j \in LiveConnections :
          /\ connections[i].start = connections[j].start
          /\ connections[i].end = connections[j].end
          /\ connections[i].port # connections[j].port
          /\ Len(connection_path(connections[i])) <
                Len(connection_path_points(connections[i]))
    /\ \E i \in LiveConnections :
          Len(connection_path_points(connections[i])) = 7


(***************************************************************************)
(* The preview of a connect gesture in paintEvent.                         *)
(***************************************************************************)
\* offset and gap of the preview.
PreviewOffset == 34

PreviewGap == 60

\* The path paintEvent draws from the start container to the pointer.
PreviewRoute(sr, E) ==
    LET S == <<RectRight(sr), sr.y + (sr.h \div 2)>>
    IN  IF S[1] < E[1] - PreviewOffset
        THEN LET p1 == <<S[1] + PreviewOffset, S[2]>>
                 p2 == <<E[1] - PreviewOffset, E[2]>>
             IN  IF Abs(S[2] - E[2]) < 2 * PreviewOffset
                 THEN PainterPath(<<S, p1, <<p1[1], E[2]>>, p2, E>>)
                 ELSE LET mid_y == (S[2] + E[2]) \div 2
                      IN  PainterPath(<<S, p1, <<p1[1], mid_y>>,
                                        <<p2[1], mid_y>>, p2, E>>)
        ELSE LET above == sr.y > E[2] + PreviewGap
                 below == RectBottom(sr) + PreviewGap < E[2]
                 p1 == <<S[1] + PreviewOffset, S[2]>>
                 p2 == IF above THEN <<p1[1], sr.y - PreviewGap>>
                       ELSE IF below
                       THEN <<p1[1], RectBottom(sr) + PreviewGap>>
                       ELSE <<p1[1], S[2] - PreviewGap>>
                 p3 == <<E[1] - PreviewGap, p2[2]>>
                 p4 == <<p3[1], E[2]>>
                 p5 == <<E[1] - PreviewOffset, E[2]>>
             IN  PainterPath(<<S, p1, p2, p3, p4, p5, E>>)

\* paintEvent draws the preview.
PreviewShown ==
    /\ connecting
    /\ connection_start # None
    /\ connection_preview_pos # NoPoint
    /\ connection_start \in DOMAIN geom

\* A rectangle whose left edge middle, the end port, is the point p.
PortAt(p) == [x |-> p[1], y |-> p[2], w |-> 1, h |-> 1]

\* C37: the live preview uses the same routing.  Whenever the preview is
\* drawn by its forward branch, its polyline is the one connection_path
\* makes for an end port at the pointer, with the offset 24 and the gap 60.
C37_PreviewSameRouting ==
    ( /\ PreviewShown
      /\ RectRight(geom[connection_start]) <
            connection_preview_pos[1] - PreviewOffset ) =>
       PreviewRoute(geom[connection_start], connection_preview_pos) =
          PathRoute(geom[connection_start], PortAt(connection_preview_pos))


\* C38: forward paths never backtrack.  For every connection routed by the
\* forward branch, also one whose ends are more than 24 and less than 48
\* apart, every segment of the path is horizontal or vertical and the x
\* coordinate never decreases from one path point to the next.
C38_ForwardNeverBacktracks ==
    \A i \in LiveConnections :
        LET S == StartPos(geom[connections[i].start])
            E == EndPos(geom[connections[i].end])
            pts == connection_path_points(connections[i])
        IN  S[1] < E[1] - RouteOffset =>
               \A k \in 1..(Len(pts) - 1) :
                  /\ pts[k][1] = pts[k + 1][1] \/ pts[k][2] = pts[k + 1][2]
                  /\ pts[k][1] <= pts[k + 1][1]


(***************************************************************************)
(* The port scenario: a decision unit and a second unit, connect gestures  *)
(* from either one, deletions of connections, repaints.                    *)
(***************************************************************************)
\* event.pos() of the presses: on the first unit, on the second unit, and
\* on the path between them.
PortPressPoints == { <<100, 200>>, <<260, 200>>, <<200, 200>> }

NextPorts ==
    \/ \E d \in NextDrops(MaxUnits) :
          dropEvent(d.text, d.pixmap, d.text_size, d.pos)
    \/ \E pos \in PortPressPoints, button \in Buttons :
          /\ button = "Right" \/ connecting
          /\ mousePressEvent(pos, button)
          /\ images' = images
    \/ paintEvent

SpecPorts == Init /\ [][NextPorts]_vars

\* C39: port index in range.  In every reachable state every connection
\* satisfies 0 <= port < total_ports, for any number of connections drawn
\* from the same decision unit and any interleaving of deletions.
C39_PortInRange ==
    \A i \in 1..Len(connections) :
       /\ 0 <= connections[i].port
       /\ connections[i].port < connections[i].total_ports

=============================================================================
